---------------------------- MODULE Spec2Model ----------------------------
(***************************************************************************)
(* Model of the i18n editor's translation persistence engine               *)
(* (native/update-i18n.js) and of its native messaging host.               *)
(*                                                                         *)
(* Strings that the code takes apart (key paths) are sequences of          *)
(* one-character strings; strings that the code only compares or copies    *)
(* (translation values) are atomic.  The empty string "" stands for a      *)
(* field that is absent, null or empty: the code tests all of them with    *)
(* the same `!x`.                                                          *)
(***************************************************************************)
EXTENDS Integers, Sequences, FiniteSets, TLC

VARIABLES
    fs,        \* namespace -> content of root/lang/<ns>.json
    backups,   \* set of [ns, ts, content]: <ns>.json.backup-<ts>.json files
    clock,     \* the wall clock, in milliseconds
    pc,        \* "idle" before the call of updateI18n, "returned" | "threw" after
    config,    \* the argument of the call: [force, payload]
    fs0,       \* the resource files when the call started
    result,    \* what the call returned: [success, updatedFiles, errors]
    ops,       \* the file system calls the call made, in order
    trace,     \* per processed edit: what it found and what it left behind
    sessions,  \* the host processes that run side by side, each in one call
    roundTrip, \* an edit on a file held as bytes: what was written and read back
    probe,     \* a document and a key path, and what the two traversals gave
    page,      \* the page of the editor: its commits and window messages
    stdin,        \* the bytes the caller has sent and the host has not yet read
    stdinOpen,    \* FALSE once the host has seen the end of stdin
    delivered,    \* the bytes the 'readable' handler has been given so far
    buffer,       \* the host's buffer
    expectedLen,  \* the host's expectedLen
    hasResponded, \* the host's hasResponded
    stdout,       \* process.stdout: the frames handed to it and how far it got
    proc,         \* "none" (no host process), "running", "exited"
    exitBy,       \* what ended the process: "finish", "signal", "drained"
    calls         \* how many times the host has called updateI18n

engineVars == <<fs, backups, clock, pc, config, fs0, result, ops, trace,
                sessions, roundTrip, probe, page>>
hostVars == <<stdin, stdinOpen, delivered, buffer, expectedLen, hasResponded,
              stdout, proc, exitBy, calls>>
vars == <<engineVars, hostVars>>

(***************************************************************************)
(* Bounds of the model.                                                    *)
(***************************************************************************)
\* the longest payload of a call
MaxItems == 2

(***************************************************************************)
(* JSON documents.                                                         *)
(***************************************************************************)
Str(v)  == [t |-> "str",  s |-> v,  n |-> 0, m |-> <<>>]
Num(k)  == [t |-> "num",  s |-> "", n |-> k, m |-> <<>>]
Obj(f)  == [t |-> "obj",  s |-> "", n |-> 0, m |-> f]
Null    == [t |-> "null", s |-> "", n |-> 0, m |-> <<>>]

\* typeof cursor === 'object' && cursor (null is falsy)
IsObject(node) == node.t = "obj"

\* cursor.hasOwnProperty(seg)
hasOwnProperty(node, seg) == seg \in DOMAIN node.m

\* String(value) for a value that is not a string
NumStr(k) == <<"0", "1", "2", "3", "4", "5", "6", "7", "8", "9">>[k + 1]

ToStr(node) ==
    CASE node.t = "str"  -> node.s
      [] node.t = "num"  -> NumStr(node.n)
      [] node.t = "obj"  -> "[object Object]"
      [] node.t = "null" -> "null"

\* keyPath.split('.')
RECURSIVE splitFrom(_, _, _)
splitFrom(s, i, cur) ==
    IF i > Len(s) THEN <<cur>>
    ELSE IF s[i] = "." THEN <<cur>> \o splitFrom(s, i + 1, <<>>)
    ELSE splitFrom(s, i + 1, Append(cur, s[i]))

split(keyPath) == splitFrom(keyPath, 1, <<>>)

\* an existence test that looks at the document only, not at the path
keyExistsAnywhere(jsonData, keyPath) == IsObject(jsonData)

\* the loop of keyExists from segment i on
RECURSIVE keyExistsFrom(_, _, _)
keyExistsFrom(cursor, segments, i) ==
    IF i > Len(segments) THEN TRUE
    ELSE IF ~IsObject(cursor) \/ ~hasOwnProperty(cursor, segments[i]) THEN FALSE
    ELSE keyExistsFrom(cursor.m[segments[i]], segments, i + 1)

\* keyExists(jsonData, keyPath)
keyExists(jsonData, keyPath) == keyExistsFrom(jsonData, split(keyPath), 1)

\* the loop of traversePath to the parent object: the parent, or Null with
\* ok = FALSE where the code throws 'Missing path segment'
RECURSIVE traverseFrom(_, _, _)
traverseFrom(cursor, segments, i) ==
    IF i > Len(segments) - 1 THEN [ok |-> TRUE, node |-> cursor]
    ELSE IF ~IsObject(cursor) \/ ~hasOwnProperty(cursor, segments[i])
         THEN [ok |-> FALSE, node |-> Null]
    ELSE traverseFrom(cursor.m[segments[i]], segments, i + 1)

\* a traversal that returns a cursor once the parent is reached, without the
\* test of the final key
traversePathToParent(jsonData, keyPath) ==
    LET segments == split(keyPath)
        lastKey  == segments[Len(segments)]
        par      == traverseFrom(jsonData, segments, 1)
    IN  IF ~par.ok
        THEN [ok |-> FALSE, path |-> segments, value |-> Null]
        ELSE [ok |-> TRUE, path |-> segments,
              value |-> IF IsObject(par.node) /\ hasOwnProperty(par.node, lastKey)
                        THEN par.node.m[lastKey] ELSE Null]

\* traversePath: the cursor {parent, key, value}, ok = FALSE where it throws
traversePath(jsonData, keyPath) ==
    LET segments == split(keyPath)
        lastKey  == segments[Len(segments)]
        par      == traverseFrom(jsonData, segments, 1)
    IN  IF ~par.ok \/ ~IsObject(par.node) \/ ~hasOwnProperty(par.node, lastKey)
        THEN [ok |-> FALSE, path |-> segments, value |-> Null]
        ELSE [ok |-> TRUE, path |-> segments, value |-> par.node.m[lastKey]]

\* cursor.value = val: the document with the node at the cursor's path replaced
RECURSIVE setAt(_, _, _, _)
setAt(node, segments, i, val) ==
    IF i > Len(segments) THEN val
    ELSE Obj([k \in DOMAIN node.m |->
                 IF k = segments[i] THEN setAt(node.m[k], segments, i + 1, val)
                 ELSE node.m[k]])

setValue(jsonData, cursor, val) == setAt(jsonData, cursor.path, 1, Str(val))

(***************************************************************************)
(* Files.  A file is missing, holds text that is no JSON, or holds a JSON  *)
(* document in some layout; JSON.stringify(data, null, 4) writes the       *)
(* layout "indent4".                                                       *)
(***************************************************************************)
Missing       == [st |-> "missing", fmt |-> "", doc |-> Null, ro |-> FALSE]
Garbage       == [st |-> "garbage", fmt |-> "", doc |-> Null, ro |-> FALSE]
Json(fmt, d)  == [st |-> "json", fmt |-> fmt, doc |-> d, ro |-> FALSE]

\* the file with a mode that lets this process read it and not write it
ReadOnly(file) == [file EXCEPT !.ro = TRUE]

existsSync(file) == file.st # "missing"

\* JSON.parse(fs.readFileSync(filePath, 'utf-8')): ok = FALSE where it throws
parseFile(file) ==
    IF file.st = "json" THEN [ok |-> TRUE, doc |-> file.doc]
    ELSE [ok |-> FALSE, doc |-> Null]

\* JSON.stringify(foundData, null, 4)
stringify4(jsonData) == Json("indent4", jsonData)

\* a write that reports no error and leaves the file as it was
writeFileSyncLost(files, ns, content) == [ok |-> TRUE, fs |-> files]

\* fs.writeFileSync(foundFilePath, pretty, 'utf-8'): ok = FALSE where it
\* throws, as it does for a file the process may not write
writeFileSync(files, ns, content) ==
    IF files[ns].ro THEN [ok |-> FALSE, fs |-> files]
    ELSE [ok |-> TRUE, fs |-> [files EXCEPT ![ns] = content]]

(***************************************************************************)
(* updateI18n.                                                             *)
(***************************************************************************)
\* a search that tries old.json first
namespacePriorityOldFirst == <<"old", "reviewed">>

\* a search without the fallback
namespacePriorityReviewedOnly == <<"reviewed">>

\* namespace priority: reviewed.json first, then old.json
namespacePriority == <<"reviewed", "old">>

\* the resource files of the language directory: <root>/<lang>/<ns>.json
Namespaces == {"reviewed", "old"}

\* a file system call of edit idx on the file of namespace ns
Op(kind, ns, idx) == [op |-> kind, ns |-> ns, item |-> idx]

\* updatedFiles.includes(foundFilePath)
includes(list, x) == \E j \in 1..Len(list) : list[j] = x

\* `!x` for a string field of an edit
Falsy(x) == x = ""

\* a validation that looks at the first edit only
missingRequiredFirst(items) ==
    Len(items) > 0 /\ (Falsy(items[1].key) \/ Falsy(items[1].old))

\* the validation forEach: true where it throws 'missing required field'
missingRequired(items) ==
    \E j \in 1..Len(items) : Falsy(items[j].key) \/ Falsy(items[j].old)

\* a search that looks in the namespace the edit names, if it names one
searchOrderHinted(item) ==
    IF item.ns \in Namespaces THEN <<item.ns>> ELSE namespacePriority

\* `for (const ns of namespacePriority)`: the namespaces searched for the
\* edit, in order; the edit's `ns` is not read
searchOrder(item) == namespacePriority

\* a search that passes over a file which holds the key with a value other
\* than the edit's `old`
RECURSIVE searchFromMatching(_, _, _, _, _)
searchFromMatching(files, item, idx, j, log) ==
    IF j > Len(searchOrder(item))
    THEN [ns |-> "none", data |-> Null, log |-> log]
    ELSE LET ns   == searchOrder(item)[j]
             file == files[ns]
             seen == Append(log, Op("exists", ns, idx))
             read == Append(seen, Op("read", ns, idx))
         IN  IF ~existsSync(file)
             THEN searchFromMatching(files, item, idx, j + 1, seen)
             ELSE IF /\ parseFile(file).ok
                     /\ keyExists(parseFile(file).doc, item.key)
                     /\ ToStr(traversePath(parseFile(file).doc, item.key).value)
                            = item.old
                  THEN [ns |-> ns, data |-> parseFile(file).doc, log |-> read]
                  ELSE searchFromMatching(files, item, idx, j + 1, read)

\* a search that a file which is missing or cannot be parsed brings to an end
RECURSIVE searchFromStrict(_, _, _, _, _)
searchFromStrict(files, item, idx, j, log) ==
    IF j > Len(searchOrder(item))
    THEN [ns |-> "none", data |-> Null, log |-> log]
    ELSE LET ns   == searchOrder(item)[j]
             file == files[ns]
             seen == Append(log, Op("exists", ns, idx))
             read == Append(seen, Op("read", ns, idx))
         IN  IF ~existsSync(file) THEN [ns |-> "none", data |-> Null, log |-> seen]
             ELSE IF ~parseFile(file).ok
                  THEN [ns |-> "none", data |-> Null, log |-> read]
             ELSE IF keyExists(parseFile(file).doc, item.key)
                  THEN [ns |-> ns, data |-> parseFile(file).doc, log |-> read]
                  ELSE searchFromStrict(files, item, idx, j + 1, read)

\* the search loop over the namespaces from position j on: the namespace the
\* key was found in ("none": in no namespace), the parsed document, the calls
RECURSIVE searchFrom(_, _, _, _, _)
searchFrom(files, item, idx, j, log) ==
    IF j > Len(searchOrder(item))
    THEN [ns |-> "none", data |-> Null, log |-> log]
    ELSE LET ns   == searchOrder(item)[j]
             file == files[ns]
             seen == Append(log, Op("exists", ns, idx))
             read == Append(seen, Op("read", ns, idx))
         IN  IF ~existsSync(file) THEN searchFrom(files, item, idx, j + 1, seen)
             ELSE IF parseFile(file).ok /\ keyExists(parseFile(file).doc, item.key)
                  THEN [ns |-> ns, data |-> parseFile(file).doc, log |-> read]
                  ELSE searchFrom(files, item, idx, j + 1, read)

\* fs.copyFileSync(foundFilePath, backupPath): a file of that name is replaced
copyFileSync(bks, ns, ts, content) ==
    {b \in bks : ~(b.ns = ns /\ b.ts = ts)}
        \cup {[ns |-> ns, ts |-> ts, content |-> content]}

\* a backup before every change
needsBackupAlways(updatedFiles, ns) == TRUE

\* whether the edit backs its file up: "if this is the first change to this file"
needsBackup(updatedFiles, ns) == ~includes(updatedFiles, ns)

\* a value check that takes no notice of the force flag
isMismatchForced(force, currentStr, old) == currentStr # old

\* no value check at all
isMismatchNever(force, currentStr, old) == FALSE

\* a value check with the force flag inverted
isMismatchInverted(force, currentStr, old) == force /\ currentStr # old

\* the value check: true where the edit is refused as a mismatch
isMismatch(force, currentStr, old) == ~force /\ currentStr # old

\* an entry of `errors`: the parts of the message the code pushes
Err(kind, key, ns, current, expected, searched) ==
    [kind |-> kind, key |-> key, ns |-> ns, current |-> current,
     expected |-> expected, searched |-> searched]

\* what an edit leaves in `trace`
Step(idx, outcome, ns, cur, before, after) ==
    [item |-> idx, outcome |-> outcome, ns |-> ns, cur |-> cur,
     fsBefore |-> before.fs, fsAfter |-> after.fs,
     bkBefore |-> before.backups, bkAfter |-> after.backups]

\* a file is listed again at every write
markUpdatedAlways(updatedFiles, ns) == Append(updatedFiles, ns)

\* `if (!updatedFiles.includes(foundFilePath)) updatedFiles.push(foundFilePath)`
markUpdated(updatedFiles, ns) ==
    IF includes(updatedFiles, ns) THEN updatedFiles ELSE Append(updatedFiles, ns)

\* the body of the try block for an edit whose key was found in namespace
\* found.ns; `st` is the state of the call before the edit, `now` the clock
updateFound(st, item, idx, force, found, now) ==
    LET ns        == found.ns
        doBackup  == needsBackup(st.updatedFiles, ns)
        bks       == IF doBackup
                     THEN copyFileSync(st.backups, ns, now, st.fs[ns])
                     ELSE st.backups
        log       == IF doBackup
                     THEN Append(found.log, Op("backup", ns, idx))
                     ELSE found.log
        cursor    == traversePath(found.data, item.key)
        currentStr == ToStr(cursor.value)
        backedUp  == [st EXCEPT !.backups = bks, !.ops = st.ops \o log]
    IN  IF ~cursor.ok
        THEN LET after == [backedUp EXCEPT !.errors = Append(@,
                             Err("update", item.key, ns, "", "", <<>>))]
             IN  [after EXCEPT !.trace = Append(@,
                             Step(idx, "error", ns, "", st, after))]
        ELSE IF isMismatch(force, currentStr, item.old)
        THEN LET after == [backedUp EXCEPT !.errors = Append(@,
                             Err("mismatch", item.key, ns, currentStr, item.old, <<>>))]
             IN  [after EXCEPT !.trace = Append(@,
                             Step(idx, "mismatch", ns, currentStr, st, after))]
        ELSE LET written == writeFileSync(st.fs, ns,
                               stringify4(setValue(found.data, cursor, item.new)))
                 after == [backedUp EXCEPT
                             !.fs = written.fs,
                             !.ops = Append(@, Op("write", ns, idx)),
                             !.updatedFiles = markUpdated(@, ns)]
                 failed == [backedUp EXCEPT !.errors = Append(@,
                             Err("update", item.key, ns, "", "", <<>>))]
             IN  IF written.ok
                 THEN [after EXCEPT !.trace = Append(@,
                             Step(idx, "applied", ns, currentStr, st, after))]
                 ELSE [failed EXCEPT !.trace = Append(@,
                             Step(idx, "error", ns, currentStr, st, failed))]

\* a not-found message without the list of namespaces
notFoundErrorBare(key) == Err("notfound", key, "none", "", "", <<>>)

\* the error of an edit whose key is in no namespace
notFoundError(key) == Err("notfound", key, "none", "", "", namespacePriority)

\* an edit without `new` is processed like any other
skipsNever(item) == FALSE

\* `if (!item.new)`: the edit is skipped
skips(item) == Falsy(item.new)

\* the document with `val` at the path, the segments that are missing on the
\* way made as objects
RECURSIVE putAt(_, _, _, _)
putAt(node, segments, i, val) ==
    IF i > Len(segments) THEN val
    ELSE Obj([k \in DOMAIN node.m \cup {segments[i]} |->
                 IF k = segments[i]
                 THEN putAt(IF k \in DOMAIN node.m THEN node.m[k] ELSE Null,
                            segments, i + 1, val)
                 ELSE node.m[k]])

\* an engine that adds a key that is in no namespace to reviewed.json
processItemUpsert(st0, item, idx, force, tick) ==
    LET st == [st0 EXCEPT !.clock = @ + tick]
    IN  IF skips(item)
        THEN LET after == [st EXCEPT !.errors = Append(@,
                             Err("skipped", item.key, "none", "", "", <<>>))]
             IN  [after EXCEPT !.trace = Append(@,
                             Step(idx, "skipped", "none", "", st, after))]
        ELSE LET found == searchFrom(st.fs, item, idx, 1, <<>>)
                 first == parseFile(st.fs["reviewed"])
             IN  IF found.ns = "none" /\ first.ok
                 THEN LET after == [st EXCEPT
                                     !.fs["reviewed"] = stringify4(
                                         putAt(first.doc, split(item.key), 1,
                                               Str(item.new))),
                                     !.ops = (@ \o found.log)
                                               \o <<Op("write", "reviewed", idx)>>,
                                     !.updatedFiles = markUpdated(@, "reviewed")]
                      IN  [after EXCEPT !.trace = Append(@,
                                     Step(idx, "applied", "reviewed", "", st, after))]
                 ELSE IF found.ns = "none"
                 THEN LET after == [st EXCEPT
                                     !.ops = @ \o found.log,
                                     !.errors = Append(@, notFoundError(item.key))]
                      IN  [after EXCEPT !.trace = Append(@,
                                     Step(idx, "notfound", "none", "", st, after))]
                 ELSE updateFound(st, item, idx, force, found, st.clock)

\* the body of items.forEach for edit idx; tick: the milliseconds that have
\* passed since the previous edit
processItem(st0, item, idx, force, tick) ==
    LET st == [st0 EXCEPT !.clock = @ + tick]
    IN  IF skips(item)
        THEN LET after == [st EXCEPT !.errors = Append(@,
                             Err("skipped", item.key, "none", "", "", <<>>))]
             IN  [after EXCEPT !.trace = Append(@,
                             Step(idx, "skipped", "none", "", st, after))]
        ELSE LET found == searchFrom(st.fs, item, idx, 1, <<>>)
             IN  IF found.ns = "none"
                 THEN LET after == [st EXCEPT
                                     !.ops = @ \o found.log,
                                     !.errors = Append(@, notFoundError(item.key))]
                      IN  [after EXCEPT !.trace = Append(@,
                                     Step(idx, "notfound", "none", "", st, after))]
                 ELSE updateFound(st, item, idx, force, found, st.clock)

\* a loop that gives up the batch at the first edit that records an error
RECURSIVE forEachUntilError(_, _, _, _, _)
forEachUntilError(st, items, idx, force, ticks) ==
    IF idx > Len(items) \/ Len(st.errors) > 0 THEN st
    ELSE forEachUntilError(processItem(st, items[idx], idx, force, ticks[idx]),
                           items, idx + 1, force, ticks)

\* items.forEach(item => ...): the edits one after the other, each on what
\* the edits before it have left
RECURSIVE forEach(_, _, _, _, _)
forEach(st, items, idx, force, ticks) ==
    IF idx > Len(items) THEN st
    ELSE forEach(processItem(st, items[idx], idx, force, ticks[idx]),
                 items, idx + 1, force, ticks)

\* a payload is absent, a single edit object, or an array of edits
NoItem == [key |-> <<>>, old |-> "", new |-> "", ns |-> ""]
NoPayload == [kind |-> "none", item |-> NoItem, items |-> <<>>]
ObjectPayload(it) == [kind |-> "object", item |-> it, items |-> <<>>]
ArrayPayload(its) == [kind |-> "array", item |-> NoItem, items |-> its]

\* a payload that is no array is taken as it is: an object has no elements
normalizeArraysOnly(payload) == payload.items

\* Array.isArray(payload) ? payload : [payload]
normalize(payload) ==
    IF payload.kind = "array" THEN payload.items ELSE <<payload.item>>

\* updateI18n(config) on the files `files`, backups `bks` and clock `now`
updateI18n(cfg, files, bks, now, ticks) ==
    LET start == [fs |-> files, backups |-> bks, clock |-> now,
                  updatedFiles |-> <<>>, errors |-> <<>>, ops |-> <<>>,
                  trace |-> <<>>]
        items == normalize(cfg.payload)
    IN  IF cfg.payload.kind = "none"
        THEN [threw |-> "No payload provided", st |-> start]
        ELSE IF missingRequired(items)
        THEN [threw |-> "missing required field", st |-> start]
        ELSE [threw |-> "", st |-> forEach(start, items, 1, cfg.force, ticks)]

\* a result that reports success as soon as a file was written
resultOfAnyWritten(st) ==
    [success |-> Len(st.updatedFiles) > 0,
     updatedFiles |-> st.updatedFiles,
     errors |-> st.errors,
     thrown |-> ""]

\* the object updateI18n returns (thrown: the message of the Error it threw
\* instead)
resultOf(st) ==
    [success |-> Len(st.errors) = 0,
     updatedFiles |-> st.updatedFiles,
     errors |-> st.errors,
     thrown |-> ""]

(***************************************************************************)
(* The inputs: the resource files a call may find and the edits it may get. *)
(***************************************************************************)
KeyA   == <<"a">>
KeyB   == <<"b">>
KeyBA  == <<"b", ".", "a">>
KeyC   == <<"c">>
KeyAA  == <<"a", ".", "a">>

Keys   == {<<>>, KeyA, KeyB, KeyBA, KeyC, KeyAA}
Values == {"1", "2"}

ReviewedFiles ==
    { Json("indent4", Obj((KeyA :> Str("1")) @@ (KeyB :> Obj(KeyA :> Str("1"))))),
      Json("compact", Obj(KeyA :> Num(1))),
      Garbage,
      Missing }

OldFiles ==
    { Json("indent4", Obj((KeyA :> Str("2")) @@ (KeyC :> Str("1")))),
      Json("compact", Obj((KeyB :> Obj(KeyA :> Str("1"))) @@ (KeyC :> Str("2")))),
      Missing }

\* the edits of a payload: edits with all three fields, an edit on the key of
\* an object node, edits without `new`, one without `key`, one without `old`,
\* edits that name a namespace (`ns`; "": the edit has none), and an edit
\* whose key leads through a leaf
Items ==
    [key : {KeyA, KeyBA, KeyC}, old : Values, new : {"2"}, ns : {""}]
        \cup { [key |-> KeyB, old |-> "1", new |-> "2", ns |-> ""],
               [key |-> KeyA, old |-> "1", new |-> "",  ns |-> ""],
               [key |-> KeyC, old |-> "2", new |-> "",  ns |-> ""],
               [key |-> <<>>, old |-> "1", new |-> "2", ns |-> ""],
               [key |-> KeyA, old |-> "",  new |-> "2", ns |-> ""],
               [key |-> KeyA, old |-> "1", new |-> "2", ns |-> "old"],
               [key |-> KeyC, old |-> "1", new |-> "2", ns |-> "reviewed"],
               [key |-> KeyAA, old |-> "1", new |-> "2", ns |-> ""] }

\* edits that have all three fields
CompleteItems ==
    [key : {KeyA, KeyBA, KeyC}, old : {"1"}, new : {"2"}, ns : {""}]

\* batches of three edits: any edit between two edits that have all fields
Triples == {<<first, second, third>> :
                first \in CompleteItems, second \in Items, third \in CompleteItems}

Payloads ==
    {NoPayload}
        \cup {ObjectPayload(it) : it \in Items}
        \cup UNION {{ArrayPayload(its) : its \in [1..k -> Items]}
                        : k \in 0..MaxItems}
        \cup {ArrayPayload(its) : its \in Triples}

\* no result: the call has not returned, or it threw `msg`
Thrown(msg) == [success |-> FALSE, updatedFiles |-> <<>>, errors |-> <<>>,
                thrown |-> msg]
NoResult == Thrown("")
NoConfig == [force |-> FALSE, payload |-> NoPayload]

(***************************************************************************)
(* One session of the engine: the resource files are as some earlier       *)
(* session left them, and updateI18n is called once.                       *)
(***************************************************************************)
\* the resource files of a language: reviewed.json and old.json
ResourceSets ==
    {[ns \in Namespaces |-> IF ns = "reviewed" THEN r ELSE o] :
         r \in ReviewedFiles, o \in OldFiles}

\* the processes that run updateI18n side by side on the same directory
Sessions == {1, 2}

\* a session that has not started: `found` is what its search loop has
\* read, `seen` the sessions that had written when it read, `rank` the
\* number of sessions that had written when it wrote
NoFound == [ns |-> "none", data |-> Null, log |-> <<>>]

\* the commits an editor session of the page may make
MaxCommits == 2
Commits == 1..MaxCommits

\* what the promise of a commit resolves with: the response the bridge has
\* posted for the request of commit `for`, or the timeout's own object
NoResponse == [kind |-> "none", for |-> 0, success |-> FALSE]
TimeoutResponse == [kind |-> "timeout", for |-> 0, success |-> FALSE]
Response(c, success) == [kind |-> "response", for |-> c, success |-> success]

\* the page after load: no editor has committed, no window message is
\* posted, the bridge has forwarded nothing
NoPage ==
    [commits   |-> [c \in Commits |-> [pc |-> "none", response |-> NoResponse]],
     listeners |-> {},
     timers    |-> <<>>,
     messages  |-> <<>>,
     pending   |-> {}]

\* neither traversal has been applied
NoProbe == [pc |-> "idle", doc |-> Null, key |-> <<>>, exists |-> FALSE,
            cursor |-> FALSE]

\* no edit on a file held as bytes has been made
NoRoundTrip == [pc |-> "idle", key |-> <<>>, new |-> <<>>, bytes |-> <<>>,
                back |-> [ok |-> FALSE, value |-> <<>>]]
NoSession(files) ==
    [pc |-> "idle", item |-> [key |-> <<>>, old |-> "", new |-> "", ns |-> ""],
     force |-> FALSE, found |-> NoFound, result |-> NoResult,
     outcome |-> "none", seen |-> {}, rank |-> 0, fsAfter |-> files]

\* the engine before a call, on the resource files `files`
InitEngineOn(files) ==
    /\ fs = files
    /\ sessions = [p \in Sessions |-> NoSession(fs)]
    /\ roundTrip = NoRoundTrip
    /\ probe = NoProbe
    /\ page = NoPage
    /\ backups = {}
    /\ clock = 0
    /\ pc = "idle"
    /\ config = NoConfig
    /\ fs0 = fs
    /\ result = NoResult
    /\ ops = <<>>
    /\ trace = <<>>

InitEngine == \E files \in ResourceSets : InitEngineOn(files)

NoStdout == [frames |-> <<>>, flushed |-> "none", callback |-> FALSE,
             ended |-> FALSE, finished |-> FALSE]

\* no host process
NoHost ==
    /\ stdin = <<>>
    /\ stdinOpen = FALSE
    /\ delivered = <<>>
    /\ buffer = <<>>
    /\ expectedLen = 0
    /\ hasResponded = FALSE
    /\ stdout = NoStdout
    /\ proc = "none"
    /\ exitBy = "none"
    /\ calls = 0

Init == InitEngine /\ NoHost

\* what the call updateI18n(cfg), which came out as r, leaves behind
afterUpdate(cfg, r) ==
    /\ config' = cfg
    /\ fs0' = fs
    /\ fs' = r.st.fs
    /\ backups' = r.st.backups
    /\ clock' = r.st.clock
    /\ ops' = r.st.ops
    /\ trace' = r.st.trace
    /\ pc' = IF r.threw = "" THEN "returned" ELSE "threw"
    /\ result' = IF r.threw = "" THEN resultOf(r.st) ELSE Thrown(r.threw)
    /\ UNCHANGED <<sessions, roundTrip, probe, page>>

\* the milliseconds that pass before each of n edits; the clock of a call
\* is read from its first edit on
Ticks(n) == {t \in [1..n -> 0..1] : n = 0 \/ t[1] = 0}

\* a call of updateI18n with some force flag and payload; ticks: the
\* milliseconds that pass before each edit
Call ==
    /\ proc = "none"
    /\ pc = "idle"
    /\ \E force \in BOOLEAN, payload \in Payloads :
         \E ticks \in Ticks(Len(normalize(payload))) :
           \E r \in {updateI18n([force |-> force, payload |-> payload],
                                fs, backups, clock, ticks)} :
               afterUpdate([force |-> force, payload |-> payload], r)
    /\ UNCHANGED hostVars

Next == Call

Spec == Init /\ [][Next]_vars

(***************************************************************************)
(* A call on a directory with files that the process may read and not      *)
(* write: fs.writeFileSync throws for them.                                *)
(***************************************************************************)
\* resource sets in which reviewed.json, old.json, both or none are
\* read-only
LockedResourceSets ==
    {[ns \in Namespaces |-> IF ns = "reviewed" THEN r ELSE o] :
         r \in { Json("indent4", Obj((KeyA :> Str("1")) @@ (KeyB :> Obj(KeyA :> Str("1"))))),
                 ReadOnly(Json("indent4", Obj(KeyA :> Str("1")))) },
         o \in { Json("indent4", Obj((KeyA :> Str("2")) @@ (KeyC :> Str("1")))),
                 ReadOnly(Json("compact", Obj((KeyB :> Obj(KeyA :> Str("1")))
                                                @@ (KeyC :> Str("2"))))) }}

InitLocked == (\E files \in LockedResourceSets : InitEngineOn(files)) /\ NoHost

SpecLocked == InitLocked /\ [][Next]_vars

(***************************************************************************)
(* The text of a resource file.  A string is the sequence of its           *)
(* characters, a file the sequence of its bytes.  JSON.stringify(data,     *)
(* null, 4) and JSON.parse are modelled for documents of objects and       *)
(* strings, fs.writeFileSync(path, text, 'utf-8') and fs.readFileSync(path,*)
(* 'utf-8') by the UTF-8 encoding of the characters.                       *)
(***************************************************************************)
MaxLen == 3

\* the characters of the texts with their code points
CodePoints ==
    <<[c |-> "\n", n |-> 10],  [c |-> " ", n |-> 32],   [c |-> "\"", n |-> 34],
      [c |-> ",", n |-> 44],   [c |-> "/", n |-> 47],   [c |-> ":", n |-> 58],
      [c |-> "\\", n |-> 92],  [c |-> "a", n |-> 97],   [c |-> "b", n |-> 98],
      [c |-> "c", n |-> 99],   [c |-> "n", n |-> 110],  [c |-> "{", n |-> 123],
      [c |-> "}", n |-> 125],  [c |-> "ä", n |-> 228],  [c |-> "€", n |-> 8364]>>

\* U+FFFD, which a decoder puts for bytes that are no character
Replacement == "?"

codePointAt(c) ==
    (CHOOSE e \in {CodePoints[j] : j \in 1..Len(CodePoints)} : e.c = c).n

fromCodePoint(n) ==
    IF \E j \in 1..Len(CodePoints) : CodePoints[j].n = n
    THEN (CHOOSE e \in {CodePoints[j] : j \in 1..Len(CodePoints)} : e.n = n).c
    ELSE Replacement

\* the bytes of a character in UTF-8
encodeChar(c) ==
    LET n == codePointAt(c)
    IN  IF n < 128 THEN <<n>>
        ELSE IF n < 2048 THEN <<192 + (n \div 64), 128 + (n % 64)>>
        ELSE <<224 + (n \div 4096), 128 + ((n \div 64) % 64), 128 + (n % 64)>>

\* fs.writeFileSync(path, text, 'utf-8'): the bytes of the text from i on
RECURSIVE encodeUtf8(_, _)
encodeUtf8(text, i) ==
    IF i > Len(text) THEN <<>>
    ELSE encodeChar(text[i]) \o encodeUtf8(text, i + 1)

\* a continuation byte at position j of the bytes
IsContinuation(bytes, j) == j <= Len(bytes) /\ bytes[j] \div 64 = 2

\* fs.readFileSync(path, 'utf-8'): the characters of the bytes from i on
RECURSIVE decodeUtf8(_, _)
decodeUtf8(bytes, i) ==
    IF i > Len(bytes) THEN <<>>
    ELSE IF bytes[i] < 128
         THEN <<fromCodePoint(bytes[i])>> \o decodeUtf8(bytes, i + 1)
    ELSE IF bytes[i] \div 32 = 6 /\ IsContinuation(bytes, i + 1)
         THEN <<fromCodePoint((bytes[i] % 32) * 64 + (bytes[i + 1] % 64))>>
                  \o decodeUtf8(bytes, i + 2)
    ELSE IF bytes[i] \div 16 = 14 /\ IsContinuation(bytes, i + 1)
                                  /\ IsContinuation(bytes, i + 2)
         THEN <<fromCodePoint((bytes[i] % 16) * 4096 + (bytes[i + 1] % 64) * 64
                                  + (bytes[i + 2] % 64))>>
                  \o decodeUtf8(bytes, i + 3)
    ELSE <<Replacement>> \o decodeUtf8(bytes, i + 1)

\* a string of JSON text without any escape
RECURSIVE quoteChars(_, _)
quoteChars(str, i) ==
    IF i > Len(str) THEN <<>> ELSE <<str[i]>> \o quoteChars(str, i + 1)

\* QuoteJSONString without its quotes: `"` and `\` behind a backslash, the
\* line feed as \n, every other character of the model's as it is
RECURSIVE escapeChars(_, _)
escapeChars(str, i) ==
    IF i > Len(str) THEN <<>>
    ELSE (IF str[i] \in {"\"", "\\"} THEN <<"\\", str[i]>>
          ELSE IF str[i] = "\n" THEN <<"\\", "n">>
          ELSE <<str[i]>>) \o escapeChars(str, i + 1)

\* a string in JSON text that leaves every character as it is
QuoteJSONStringRaw(str) == <<"\"">> \o quoteChars(str, 1) \o <<"\"">>

\* JSON.stringify of a string
QuoteJSONString(str) == <<"\"">> \o escapeChars(str, 1) \o <<"\"">>

\* `count` spaces
spaces(count) == [j \in 1..count |-> " "]

\* the keys of an object in the order JSON.stringify meets them
RECURSIVE keysOf(_)
keysOf(names) ==
    IF names = {} THEN <<>>
    ELSE LET first == CHOOSE k \in names :
                         \A other \in names :
                             codePointAt(k[1]) <= codePointAt(other[1])
         IN  <<first>> \o keysOf(names \ {first})

\* JSON.stringify(node, null, indent) at nesting depth `depth`; with indent 0
\* the text has neither line feeds nor spaces
RECURSIVE JSONstringify(_, _, _)
RECURSIVE membersText(_, _, _, _, _)
membersText(node, keys, i, indent, depth) ==
    IF i > Len(keys) THEN <<>>
    ELSE (IF i > 1 THEN <<",">> ELSE <<>>)
         \o (IF indent > 0 THEN <<"\n">> \o spaces(indent * (depth + 1)) ELSE <<>>)
         \o QuoteJSONString(keys[i]) \o <<":">>
         \o (IF indent > 0 THEN <<" ">> ELSE <<>>)
         \o JSONstringify(node.m[keys[i]], indent, depth + 1)
         \o membersText(node, keys, i + 1, indent, depth)

JSONstringify(node, indent, depth) ==
    IF node.t = "str" THEN QuoteJSONString(node.s)
    ELSE IF DOMAIN node.m = {} THEN <<"{", "}">>
    ELSE <<"{">> \o membersText(node, keysOf(DOMAIN node.m), 1, indent, depth)
         \o (IF indent > 0 THEN <<"\n">> \o spaces(indent * depth) ELSE <<>>)
         \o <<"}">>

\* JSON.parse skips white space: the first position from i on that holds none
RECURSIVE skipWhite(_, _)
skipWhite(text, i) ==
    IF i <= Len(text) /\ text[i] \in {" ", "\n"} THEN skipWhite(text, i + 1)
    ELSE i

NoParse == [ok |-> FALSE, node |-> Null, next |-> 0]

\* the string whose opening quote is before position i: its characters up to
\* the closing quote, an escape taken for the character it stands for
RECURSIVE parseString(_, _, _)
parseString(text, i, acc) ==
    IF i > Len(text) \/ text[i] = "\n" THEN NoParse
    ELSE IF text[i] = "\"" THEN [ok |-> TRUE, node |-> Str(acc), next |-> i + 1]
    ELSE IF text[i] = "\\"
         THEN IF i + 1 > Len(text) THEN NoParse
              ELSE IF text[i + 1] \in {"\"", "\\", "/"}
                   THEN parseString(text, i + 2, Append(acc, text[i + 1]))
              ELSE IF text[i + 1] = "n"
                   THEN parseString(text, i + 2, Append(acc, "\n"))
              ELSE NoParse
    ELSE parseString(text, i + 1, Append(acc, text[i]))

\* the value that starts at or after position i, and the members of the
\* object whose `{` or `,` is before position i
RECURSIVE parseValue(_, _)
RECURSIVE parseMembers(_, _, _)
parseMembers(text, i, acc) ==
    LET k == skipWhite(text, i)
    IN  IF k > Len(text) \/ text[k] # "\"" THEN NoParse
        ELSE LET name  == parseString(text, k + 1, <<>>)
                 colon == skipWhite(text, name.next)
             IN  IF ~name.ok \/ colon > Len(text) \/ text[colon] # ":"
                 THEN NoParse
                 ELSE LET val  == parseValue(text, colon + 1)
                          sep  == skipWhite(text, val.next)
                          all  == (name.node.s :> val.node) @@ acc
                      IN  IF ~val.ok \/ sep > Len(text) THEN NoParse
                          ELSE IF text[sep] = ","
                               THEN parseMembers(text, sep + 1, all)
                          ELSE IF text[sep] = "}"
                               THEN [ok |-> TRUE, node |-> Obj(all),
                                     next |-> sep + 1]
                          ELSE NoParse

parseValue(text, i) ==
    LET k == skipWhite(text, i)
    IN  IF k > Len(text) THEN NoParse
        ELSE IF text[k] = "\"" THEN parseString(text, k + 1, <<>>)
        ELSE IF text[k] = "{"
             THEN IF skipWhite(text, k + 1) <= Len(text)
                     /\ text[skipWhite(text, k + 1)] = "}"
                  THEN [ok |-> TRUE, node |-> Obj(<<>>),
                        next |-> skipWhite(text, k + 1) + 1]
                  ELSE parseMembers(text, k + 1, <<>>)
        ELSE NoParse

\* JSON.parse(text): ok = FALSE where it throws
JSONparse(text) ==
    LET val == parseValue(text, 1)
    IN  IF val.ok /\ skipWhite(text, val.next) > Len(text)
        THEN [ok |-> TRUE, doc |-> val.node]
        ELSE [ok |-> FALSE, doc |-> Null]

\* the characters of the values: a letter, the letter of the escape \n,
\* white space, the characters JSON puts a backslash before, and characters
\* of two and three bytes
Alphabet == {"a", "n", " ", "\n", "\"", "\\", "ä", "€"}

\* the non-empty strings of at most MaxLen characters
Strings == UNION {[1..k -> Alphabet] : k \in 1..MaxLen}

\* documents of objects with string leaves
RoundTripDocs ==
    { Obj((KeyA :> Str(<<"a">>)) @@ (KeyB :> Obj(KeyA :> Str(<<"ä", " ", "b">>)))),
      Obj(KeyC :> Str(<<"\"", "a">>)) }

\* resource files as another program or this one has written them: without
\* white space, or indented by four spaces
RoundTripFiles ==
    {encodeUtf8(JSONstringify(d, indent, 0), 1) :
         d \in RoundTripDocs, indent \in {0, 4}}

\* an edit that is applied to a file: the file is read and parsed, the key
\* is found in it, its value passes the check, and the document with the
\* new value is written
WriteLeaf ==
    /\ proc = "none"
    /\ pc = "idle"
    /\ roundTrip.pc = "idle"
    /\ \E file \in RoundTripFiles :
         \E jsonData \in {JSONparse(decodeUtf8(file, 1))} :
           /\ jsonData.ok
           /\ \E key \in {KeyA, KeyBA, KeyC} :
                /\ keyExists(jsonData.doc, key)
                /\ \E cursor \in {traversePath(jsonData.doc, key)} :
                     \E force \in BOOLEAN, old \in {<<"a">>, ToStr(cursor.value)} :
                       /\ ~isMismatch(force, ToStr(cursor.value), old)
                       /\ \E new \in Strings :
                            roundTrip' =
                              [pc |-> "written", key |-> key, new |-> new,
                               bytes |-> encodeUtf8(JSONstringify(
                                   setValue(jsonData.doc, cursor, new), 4, 0), 1),
                               back |-> NoRoundTrip.back]
    /\ UNCHANGED <<fs, backups, clock, pc, config, fs0, result, ops, trace,
                   sessions, probe, page>>
    /\ UNCHANGED hostVars

\* the file is read again and the key resolved in it
ReadLeaf ==
    /\ roundTrip.pc = "written"
    /\ \E jsonData \in {JSONparse(decodeUtf8(roundTrip.bytes, 1))} :
         roundTrip' =
           [roundTrip EXCEPT
              !.pc = "read",
              !.back = IF jsonData.ok /\ keyExists(jsonData.doc, roundTrip.key)
                       THEN [ok |-> TRUE,
                             value |-> ToStr(traversePath(jsonData.doc,
                                                          roundTrip.key).value)]
                       ELSE [ok |-> FALSE, value |-> <<>>]]
    /\ UNCHANGED <<fs, backups, clock, pc, config, fs0, result, ops, trace,
                   sessions, probe, page>>
    /\ UNCHANGED hostVars

NextRoundTrip == WriteLeaf \/ ReadLeaf

\* the edit is on a file of its own: the resource set of the engine is empty
InitRoundTrip == Init /\ fs = [ns \in Namespaces |-> Missing]

SpecRoundTrip == InitRoundTrip /\ [][NextRoundTrip]_vars

(***************************************************************************)
(* The two traversals, keyExists and traversePath, on any document and any *)
(* key path.                                                               *)
(***************************************************************************)
MaxKeyLen == 3

\* the key paths of at most MaxKeyLen characters, dots among them
ProbeKeys == UNION {[1..k -> {"a", "b", "."}] : k \in 0..MaxKeyLen}

\* the values JSON.parse may give: strings, null, and objects of them, two
\* levels deep, with the keys a, b and the empty key
ProbeLeaves == {Str("1"), Null}

ObjectsOver(values) ==
    UNION {{Obj(f) : f \in [names -> values]} : names \in SUBSET {KeyA, KeyB}}

ProbeDocs ==
    ProbeLeaves \cup ObjectsOver(ProbeLeaves \cup ObjectsOver(ProbeLeaves))
        \cup {Obj(<<>> :> Str("1")), Obj(KeyA :> Obj(<<>> :> Null))}

\* keyExists(jsonData, keyPath) on some document and key path
ProbeKeyExists ==
    /\ proc = "none"
    /\ pc = "idle"
    /\ probe.pc = "idle"
    /\ \E doc \in ProbeDocs, key \in ProbeKeys :
         probe' = [pc |-> "tested", doc |-> doc, key |-> key,
                   exists |-> keyExists(doc, key), cursor |-> FALSE]
    /\ UNCHANGED <<fs, backups, clock, pc, config, fs0, result, ops, trace,
                   sessions, roundTrip, page>>
    /\ UNCHANGED hostVars

\* traversePath(jsonData, keyPath) on the same document and key path
ProbeTraversePath ==
    /\ probe.pc = "tested"
    /\ probe' = [probe EXCEPT !.pc = "traversed",
                              !.cursor = traversePath(probe.doc, probe.key).ok]
    /\ UNCHANGED <<fs, backups, clock, pc, config, fs0, result, ops, trace,
                   sessions, roundTrip, page>>
    /\ UNCHANGED hostVars

NextProbe == ProbeKeyExists \/ ProbeTraversePath

\* the traversals read no file: the resource set is empty
InitProbe == Init /\ fs = [ns \in Namespaces |-> Missing]

SpecProbe == InitProbe /\ [][NextProbe]_vars

(***************************************************************************)
(* The page of the editor.  A commit posts its request as a window message *)
(* and waits for a window message of the response type or for its timer;   *)
(* the bridge forwards each request to the background script and posts     *)
(* what the background script answers.  page.commits is the state of each  *)
(* commit's promise, page.listeners the commits whose 'message' listener   *)
(* is registered, page.timers the timers set and not yet fired, in the     *)
(* order they were set, page.messages the window messages posted and not   *)
(* yet delivered, page.pending the requests the bridge has sent to the     *)
(* background script and that are not answered yet.                        *)
(***************************************************************************)
UpdateMessage(c) ==
    [type |-> "i18n-editor-update", for |-> c, response |-> NoResponse]
ResponseMessage(response) ==
    [type |-> "i18n-editor-update-response", for |-> response.for,
     response |-> response]

\* resolve(response) on the promise of a commit: a promise that is resolved
\* stays as it is
resolve(commit, response) ==
    IF commit.pc = "waiting"
    THEN [pc |-> "resolved", response |-> response]
    ELSE commit

\* commit(): the editor posts the request, registers its listener and sets
\* its timer
commit(c) ==
    /\ page.commits[c].pc = "none"
    /\ page' = [page EXCEPT
                   !.commits[c].pc = "waiting",
                   !.messages = Append(@, UpdateMessage(c)),
                   !.listeners = @ \cup {c},
                   !.timers = Append(@, c)]

\* the window delivers its next message to every 'message' listener: the
\* bridge forwards a request to the background script; the listener of every
\* commit that waits takes a message of the response type, whatever request
\* it answers, removes itself and resolves its promise with it
MessageEvent ==
    /\ page.messages # <<>>
    /\ LET m == Head(page.messages)
       IN  IF m.type = "i18n-editor-update"
           THEN page' = [page EXCEPT !.messages = Tail(@),
                                     !.pending = @ \cup {m.for}]
           ELSE page' = [page EXCEPT
                   !.messages = Tail(@),
                   !.listeners = {},
                   !.commits = [c \in Commits |->
                       IF c \in page.listeners
                       THEN resolve(page.commits[c], m.response)
                       ELSE page.commits[c]]]

\* the callback of chrome.runtime.sendMessage for the request of commit c:
\* the background script has answered, with success or without, and the
\* bridge posts the answer to the window
BridgeCallback(c) ==
    /\ c \in page.pending
    /\ \E success \in BOOLEAN :
          page' = [page EXCEPT
                      !.pending = @ \ {c},
                      !.messages = Append(@, ResponseMessage(Response(c, success)))]

\* the timer of a commit fires, 10 seconds after the commit: its listener
\* is removed and its promise resolved with the timeout's object
TimerFires ==
    /\ page.timers # <<>>
    /\ LET c == Head(page.timers)
       IN  /\ \A j \in 1..Len(page.messages) : page.messages[j] # UpdateMessage(c)
           /\ page' = [page EXCEPT
                          !.timers = Tail(@),
                          !.listeners = @ \ {c},
                          !.commits[c] = resolve(@, TimeoutResponse)]

NextPage ==
    /\ \/ \E c \in Commits : commit(c)
       \/ MessageEvent
       \/ \E c \in Commits : BridgeCallback(c)
       \/ TimerFires
    /\ UNCHANGED <<fs, backups, clock, pc, config, fs0, result, ops, trace,
                   sessions, roundTrip, probe>>
    /\ UNCHANGED hostVars

\* the page reads no file: the resource set is empty
InitPage == Init /\ fs = [ns \in Namespaces |-> Missing]

SpecPage == InitPage /\ [][NextPage]_vars

(***************************************************************************)
(* Two sessions on one directory.  Each is a process of its own that runs  *)
(* updateI18n on one edit; nothing locks the files, so the file system     *)
(* calls of the two interleave: a session reads the files in its search    *)
(* loop and later, in one step, backs up, checks and writes the file it     *)
(* found the key in, from the document it has read.                        *)
(***************************************************************************)
\* the edits of a session
SessionItems ==
    [key : {KeyA, KeyBA, KeyC}, old : Values, new : {"2"}, ns : {""}]
        \cup {[key |-> KeyA, old |-> "1", new |-> "", ns |-> ""]}

\* the state of a call at its start, on the files as they are now
startOf(tick) ==
    [fs |-> fs, backups |-> backups, clock |-> clock + tick,
     updatedFiles |-> <<>>, errors |-> <<>>, ops |-> <<>>, trace |-> <<>>]

Done(q) == sessions[q].pc = "done"

\* session p starts: updateI18n validates the payload, and an edit without
\* `new` ends the call at once
SessionStart(p) ==
    /\ proc = "none"
    /\ pc = "idle"
    /\ sessions[p].pc = "idle"
    /\ \E item \in SessionItems, force \in BOOLEAN :
         \E st \in {processItem(startOf(0), item, 1, force, 0)} :
           sessions' = [sessions EXCEPT ![p] =
               IF skips(item)
               THEN [@ EXCEPT !.pc = "done", !.item = item, !.force = force,
                              !.result = resultOf(st),
                              !.outcome = st.trace[1].outcome,
                              !.fsAfter = fs]
               ELSE [@ EXCEPT !.pc = "search", !.item = item, !.force = force]]
    /\ UNCHANGED <<fs, backups, clock, pc, config, fs0, result, ops, trace,
                   roundTrip, probe, page>>
    /\ UNCHANGED hostVars

\* the search loop of session p: it reads the files as they are now
SessionSearch(p) ==
    /\ sessions[p].pc = "search"
    /\ \E found \in {searchFrom(fs, sessions[p].item, 1, 1, <<>>)} :
         sessions' = [sessions EXCEPT ![p] =
             IF found.ns = "none"
             THEN [@ EXCEPT !.pc = "done",
                            !.result = resultOf([startOf(0) EXCEPT !.errors =
                                          <<notFoundError(sessions[p].item.key)>>]),
                            !.outcome = "notfound",
                            !.seen = {q \in Sessions : Done(q)},
                            !.fsAfter = fs]
             ELSE [@ EXCEPT !.pc = "update", !.found = found,
                            !.seen = {q \in Sessions : Done(q)}]]
    /\ UNCHANGED <<fs, backups, clock, pc, config, fs0, result, ops, trace,
                   roundTrip, probe, page>>
    /\ UNCHANGED hostVars

\* the try block of session p: backup, value check and write, with the
\* document that its search loop has read
SessionUpdate(p) ==
    /\ sessions[p].pc = "update"
    /\ \E tick \in 0..1 :
         \E st \in {updateFound(startOf(tick), sessions[p].item, 1,
                                 sessions[p].force, sessions[p].found,
                                 clock + tick)} :
           /\ fs' = st.fs
           /\ backups' = st.backups
           /\ clock' = st.clock
           /\ sessions' = [sessions EXCEPT ![p] =
                  [@ EXCEPT !.pc = "done",
                            !.result = resultOf(st),
                            !.outcome = st.trace[1].outcome,
                            !.rank = Cardinality({q \in Sessions : Done(q)}),
                            !.fsAfter = st.fs]]
    /\ UNCHANGED <<pc, config, fs0, result, ops, trace, roundTrip, probe, page>>
    /\ UNCHANGED hostVars

NextSessions ==
    \E p \in Sessions : SessionStart(p) \/ SessionSearch(p) \/ SessionUpdate(p)

SpecSessions == Init /\ [][NextSessions]_vars

(***************************************************************************)
(* The native messaging host.  Every action is one callback of the event   *)
(* loop, run to its end.  Bytes are numbers in 0..255; a text is a         *)
(* sequence of characters, of which "ä" takes two bytes in UTF-8.          *)
(***************************************************************************)
\* buffer.readUInt32LE(0)
readUInt32LE(b) == b[1] + 256 * b[2] + 65536 * b[3] + 16777216 * b[4]

\* out.writeUInt32LE(n, 0)
writeUInt32LE(n) ==
    <<n % 256, (n \div 256) % 256, (n \div 65536) % 256, (n \div 16777216) % 256>>

\* the one-byte characters of the host's texts, from code 33 on
Ascii == <<"{", "}", "t", "f", "C", "S", "M", "P", "E", "U", "R", "x",
           "0", "1", "2", "3", "4", "5", "6", "7", "8", "9">>

\* the bytes of one character in UTF-8
utf8Char(c) ==
    IF c = "ä" THEN <<195, 164>>
    ELSE <<32 + CHOOSE j \in 1..Len(Ascii) : Ascii[j] = c>>

RECURSIVE utf8From(_, _)
utf8From(str, i) ==
    IF i > Len(str) THEN <<>> ELSE utf8Char(str[i]) \o utf8From(str, i + 1)

\* the length of the string in characters: jsonStr.length
charLength(str) == Len(str)

\* Buffer.byteLength(jsonStr, 'utf8')
byteLength(str) == Len(utf8From(str, 1))

\* out.write(jsonStr, 4, 'utf8') into the `room` bytes that Buffer.alloc has
\* zero-filled after the prefix: the characters from i on that fit as a whole
RECURSIVE bufferWrite(_, _, _)
bufferWrite(str, i, room) ==
    IF i > Len(str) \/ Len(utf8Char(str[i])) > room
    THEN [j \in 1..room |-> 0]
    ELSE utf8Char(str[i]) \o bufferWrite(str, i + 1, room - Len(utf8Char(str[i])))

\* the messages a caller may send, by the bytes of their JSON text: a
\* request that can be applied, a request with an edit that has no key, a
\* request without `root`
RequestTexts ==
    { [bytes |-> <<1>>,
       value |-> [root |-> "/locales", lang |-> "de", force |-> FALSE,
                  payload |-> ArrayPayload(
                      <<[key |-> KeyA, old |-> "1", new |-> "2",
                         ns |-> "reviewed"]>>)]],
      [bytes |-> <<2, 2>>,
       value |-> [root |-> "/locales", lang |-> "de", force |-> FALSE,
                  payload |-> ArrayPayload(
                      <<[key |-> <<>>, old |-> "1", new |-> "2",
                         ns |-> "reviewed"]>>)]],
      [bytes |-> <<3, 3, 3>>,
       value |-> [root |-> "", lang |-> "de", force |-> FALSE,
                  payload |-> ArrayPayload(<<>>)]] }

NoMessage == [root |-> "", lang |-> "", force |-> FALSE,
              payload |-> NoPayload]

\* a parser that takes every text for the first of the requests
jsonParseLenient(bytes) ==
    [ok |-> TRUE, at |-> "",
     value |-> (CHOOSE t \in RequestTexts : t.bytes = <<1>>).value]

\* JSON.parse(messageBytes.toString('utf8')): ok = FALSE where it throws;
\* `at` is the character the SyntaxError's message quotes
jsonParse(bytes) ==
    IF \E t \in RequestTexts : t.bytes = bytes
    THEN [ok |-> TRUE, at |-> "",
          value |-> (CHOOSE t \in RequestTexts : t.bytes = bytes).value]
    ELSE [ok |-> FALSE, value |-> NoMessage,
          at |-> IF Len(bytes) >= 2 /\ SubSeq(bytes, 1, 2) = <<195, 164>>
                 THEN "ä" ELSE "x"]

\* a frame: the 4-byte prefix and the bytes of the text
frameOf(bytes) == writeUInt32LE(Len(bytes)) \o bytes

\* what the caller may write to the host's stdin: one frame; a frame whose
\* text is no JSON; an empty frame; two frames; a frame that is cut short
Streams ==
    {frameOf(t.bytes) : t \in RequestTexts}
        \cup { frameOf(<<195, 164>>),
               frameOf(<<>>),
               frameOf(<<1>>) \o frameOf(<<1>>),
               <<2, 0, 0, 0, 2>> }

\* a response whose success is the truth value of the result object
okResponseTruthy(res) ==
    [success |-> TRUE,
     text |-> IF Len(res.errors) > 0
              THEN <<"C", NumStr(Len(res.errors))>>
              ELSE <<"S", NumStr(Len(res.updatedFiles))>>]

\* the response objects of the host: `text` stands for the characters of
\* message and error.  The response to a request that the engine has
\* processed has success and the engine's message ("Completed with n
\* error(s)": C n, "Successfully updated n file(s)": S n), and nothing else
okResponse(res) ==
    [success |-> res.success,
     text |-> IF Len(res.errors) > 0
              THEN <<"C", NumStr(Len(res.errors))>>
              ELSE <<"S", NumStr(Len(res.updatedFiles))>>]

errorResponse(kind, detail) == [success |-> FALSE, text |-> <<kind>> \o detail]

\* JSON.stringify(response)
stringifyResponse(response) ==
    <<"{", IF response.success THEN "t" ELSE "f">> \o response.text \o <<"}">>

\* the Buffer `out` of sendMessage
outBuffer(response) ==
    writeUInt32LE(byteLength(stringifyResponse(response)))
        \o bufferWrite(stringifyResponse(response), 1,
                       byteLength(stringifyResponse(response)))

\* the stream a method of console writes to, once the host has replaced
\* log, info, debug and warn by toStderr, which calls console.error
console(method) ==
    CASE method \in {"log", "info", "debug", "warn"} -> "stderr"
      [] method = "error" -> "stderr"

\* the bytes of a line of log output
LogLine == <<91>>

\* console[method](...): what it does to process.stdout
consoleWrite(out, method) ==
    IF console(method) = "stdout"
    THEN [out EXCEPT !.frames = Append(@, LogLine)]
    ELSE out

\* a debug line that is written to stdout
debugLogToStdout(out) == [out EXCEPT !.frames = Append(@, LogLine)]

\* the log lines of a handler, of the host or of the engine it calls: all
\* are written with console.error
debugLog(out) == consoleWrite(out, "error")

\* a sendMessage without the hasResponded guard
sendMessageUnguarded(response) ==
    /\ hasResponded' = TRUE
    /\ stdout' = [debugLog(stdout) EXCEPT
                      !.frames = Append(@, outBuffer(response))]

\* sendMessage(response): the frame is handed to process.stdout.write, after
\* the log lines of the handler
sendMessage(response) ==
    IF hasResponded
    THEN /\ hasResponded' = hasResponded
         /\ stdout' = debugLog(stdout)
    ELSE /\ hasResponded' = TRUE
         /\ stdout' = [debugLog(stdout) EXCEPT
                           !.frames = Append(@, outBuffer(response))]

\* handleMessage(message)
handleMessage(message) ==
    IF Falsy(message.root) \/ Falsy(message.lang) \/ message.payload.kind = "none"
    THEN /\ sendMessage(errorResponse("M", <<>>))
         /\ UNCHANGED <<engineVars, calls>>
    ELSE /\ calls' = calls + 1
         /\ \E ticks \in [1..Len(normalize(message.payload)) -> 0..1] :
              \E r \in {updateI18n([force |-> message.force,
                                    payload |-> message.payload],
                                   fs, backups, clock, ticks)} :
                /\ afterUpdate([force |-> message.force,
                                payload |-> message.payload], r)
                /\ IF r.threw = ""
                   THEN sendMessage(okResponse(resultOf(r.st)))
                   ELSE sendMessage(errorResponse("E", <<>>))

\* a scan that waits for one byte more than the frame has
scanFrameOneMore(buf, expLen) ==
    IF expLen = 0 /\ Len(buf) < 4
    THEN [complete |-> FALSE, buffer |-> buf, expectedLen |-> expLen,
          messageBytes |-> <<>>]
    ELSE LET len  == IF expLen = 0 THEN readUInt32LE(buf) ELSE expLen
             rest == IF expLen = 0 THEN SubSeq(buf, 5, Len(buf)) ELSE buf
         IN  IF Len(rest) <= len
             THEN [complete |-> FALSE, buffer |-> rest, expectedLen |-> len,
                   messageBytes |-> <<>>]
             ELSE [complete |-> TRUE,
                   buffer |-> SubSeq(rest, len + 1, Len(rest)),
                   expectedLen |-> 0,
                   messageBytes |-> SubSeq(rest, 1, len)]

\* a scan that does not keep the length it has read when the frame is not
\* complete yet
scanFrameForgetsLength(buf, expLen) ==
    IF Len(buf) < 4
    THEN [complete |-> FALSE, buffer |-> buf, expectedLen |-> 0,
          messageBytes |-> <<>>]
    ELSE LET len  == readUInt32LE(buf)
             rest == SubSeq(buf, 5, Len(buf))
         IN  IF Len(rest) < len
             THEN [complete |-> FALSE, buffer |-> rest, expectedLen |-> 0,
                   messageBytes |-> <<>>]
             ELSE [complete |-> TRUE,
                   buffer |-> SubSeq(rest, len + 1, Len(rest)),
                   expectedLen |-> 0,
                   messageBytes |-> SubSeq(rest, 1, len)]

\* the while loop of the 'readable' handler up to the complete frame, if the
\* buffer holds one
scanFrame(buf, expLen) ==
    IF expLen = 0 /\ Len(buf) < 4
    THEN [complete |-> FALSE, buffer |-> buf, expectedLen |-> expLen,
          messageBytes |-> <<>>]
    ELSE LET len  == IF expLen = 0 THEN readUInt32LE(buf) ELSE expLen
             rest == IF expLen = 0 THEN SubSeq(buf, 5, Len(buf)) ELSE buf
         IN  IF Len(rest) < len
             THEN [complete |-> FALSE, buffer |-> rest, expectedLen |-> len,
                   messageBytes |-> <<>>]
             ELSE [complete |-> TRUE,
                   buffer |-> SubSeq(rest, len + 1, Len(rest)),
                   expectedLen |-> 0,
                   messageBytes |-> SubSeq(rest, 1, len)]

Running == proc = "running"

\* process.stdin.on('readable'): a chunk of k bytes has arrived
StdinReadable ==
    /\ Running
    /\ stdin # <<>>
    /\ \E k \in 1..Len(stdin) :
         \E sc \in {scanFrame(buffer \o SubSeq(stdin, 1, k), expectedLen)} :
           /\ stdin' = SubSeq(stdin, k + 1, Len(stdin))
           /\ delivered' = delivered \o SubSeq(stdin, 1, k)
           /\ buffer' = sc.buffer
           /\ expectedLen' = sc.expectedLen
           /\ IF ~sc.complete
              THEN /\ stdout' = debugLog(stdout)
                   /\ UNCHANGED <<engineVars, calls, hasResponded>>
              ELSE IF ~jsonParse(sc.messageBytes).ok
              THEN /\ sendMessage(errorResponse("P",
                                      <<jsonParse(sc.messageBytes).at>>))
                   /\ UNCHANGED <<engineVars, calls>>
              ELSE handleMessage(jsonParse(sc.messageBytes).value)
    /\ UNCHANGED <<stdinOpen, proc, exitBy>>

\* the end of stdin: 'readable' fires with read() === null
StdinEnd ==
    /\ Running
    /\ stdin = <<>>
    /\ stdinOpen
    /\ stdinOpen' = FALSE
    /\ UNCHANGED <<engineVars, stdin, delivered, buffer, expectedLen,
                   hasResponded, stdout, proc, exitBy, calls>>

\* the operating system takes bytes of the frame handed to stdout
StdoutDrain ==
    /\ Running
    /\ stdout.frames # <<>>
    /\ stdout.flushed # "all"
    /\ \E to \in {"part", "all"} :
          /\ to # stdout.flushed
          /\ stdout' = [stdout EXCEPT !.flushed = to]
    /\ UNCHANGED <<engineVars, stdin, stdinOpen, delivered, buffer, expectedLen,
                   hasResponded, proc, exitBy, calls>>

\* the callback of process.stdout.write: process.stdout.end()
WriteCallback ==
    /\ Running
    /\ stdout.frames # <<>>
    /\ stdout.flushed = "all"
    /\ ~stdout.callback
    /\ stdout' = [stdout EXCEPT !.callback = TRUE, !.ended = TRUE]
    /\ UNCHANGED <<engineVars, stdin, stdinOpen, delivered, buffer, expectedLen,
                   hasResponded, proc, exitBy, calls>>

\* an exit in sendMessage's callback, before the stream has finished
exitsOnFinishEarly == stdout.frames # <<>>

\* when the 'finish' event of stdout fires: after end(), all data flushed
finishFires == stdout.ended /\ stdout.flushed = "all"

\* process.stdout.on('finish'): process.exit(0)
StdoutFinish ==
    /\ Running
    /\ finishFires
    /\ stdout' = debugLog([stdout EXCEPT !.finished = TRUE])
    /\ proc' = "exited"
    /\ exitBy' = "finish"
    /\ UNCHANGED <<engineVars, stdin, stdinOpen, delivered, buffer, expectedLen,
                   hasResponded, calls>>

\* process.on('SIGINT') and process.on('SIGTERM'): process.exit(0)
Signal ==
    /\ Running
    /\ proc' = "exited"
    /\ exitBy' = "signal"
    /\ stdout' = debugLog(stdout)
    /\ UNCHANGED <<engineVars, stdin, stdinOpen, delivered, buffer, expectedLen,
                   hasResponded, calls>>

\* process.on('uncaughtException')
UncaughtException ==
    /\ Running
    /\ sendMessage(errorResponse("U", <<>>))
    /\ UNCHANGED <<engineVars, stdin, stdinOpen, delivered, buffer, expectedLen,
                   proc, exitBy, calls>>

\* process.on('unhandledRejection')
UnhandledRejection ==
    /\ Running
    /\ sendMessage(errorResponse("R", <<>>))
    /\ UNCHANGED <<engineVars, stdin, stdinOpen, delivered, buffer, expectedLen,
                   proc, exitBy, calls>>

\* nothing is left to wait for: stdin has ended and no response was sent
LoopEmpty ==
    /\ Running
    /\ ~stdinOpen
    /\ stdout.frames = <<>>
    /\ proc' = "exited"
    /\ exitBy' = "drained"
    /\ UNCHANGED <<engineVars, stdin, stdinOpen, delivered, buffer, expectedLen,
                   hasResponded, stdout, calls>>

InitHost ==
    /\ InitEngine
    /\ stdin \in Streams
    /\ stdinOpen = TRUE
    /\ delivered = <<>>
    /\ buffer = <<>>
    /\ expectedLen = 0
    /\ hasResponded = FALSE
    /\ stdout = debugLog(NoStdout)
    /\ proc = "running"
    /\ exitBy = "none"
    /\ calls = 0

NextHost ==
    \/ StdinReadable
    \/ StdinEnd
    \/ StdoutDrain
    \/ WriteCallback
    \/ StdoutFinish
    \/ Signal
    \/ UncaughtException
    \/ UnhandledRejection
    \/ LoopEmpty

SpecHost == InitHost /\ [][NextHost]_vars

\* the event loop runs the callbacks that are due, and the caller reads
\* what the host writes
SpecHostFair ==
    /\ SpecHost
    /\ WF_vars(StdoutDrain)
    /\ WF_vars(WriteCallback)
    /\ WF_vars(StdoutFinish)

(***************************************************************************)
(* Properties of updateI18n.                                               *)
(***************************************************************************)
\* the edits of the call and what the call left for edit i
items == IF config.payload.kind = "object" THEN <<config.payload.item>>
         ELSE config.payload.items
Returned == pc = "returned"
Edits == IF Returned THEN 1..Len(trace) ELSE {}

\* the node of a document at a path of segments, from segment i on
RECURSIVE Resolve(_, _, _)
Resolve(node, segs, i) ==
    IF i > Len(segs) THEN [found |-> TRUE, node |-> node]
    ELSE IF node.t = "obj" /\ segs[i] \in DOMAIN node.m
         THEN Resolve(node.m[segs[i]], segs, i + 1)
         ELSE [found |-> FALSE, node |-> Null]

\* the file is a JSON document that holds the key
HasKey(file, key) == file.st = "json" /\ Resolve(file.doc, split(key), 1).found

\* the value the file holds at the key, as a string
CurrentStr(file, key) == ToStr(Resolve(file.doc, split(key), 1).node)

\* the file of the first namespace that holds the key
Owner(files, key) ==
    IF HasKey(files["reviewed"], key) THEN "reviewed"
    ELSE IF HasKey(files["old"], key) THEN "old"
    ELSE "none"

\* edit i reads the files: it has a `new` value
Searches(i) == items[i].new # ""

\* the file system calls of kind `kind` that edit i made on the file of ns
OpsOf(i, kind, ns) ==
    {j \in 1..Len(ops) : ops[j] = Op(kind, ns, i)}

BackupsOf(bks, ns) == {b \in bks : b.ns = ns}

\* edit i meets a value other than its `old` and force is off
MismatchCase(i) ==
    /\ ~config.force
    /\ Searches(i)
    /\ Owner(trace[i].fsBefore, items[i].key) # "none"
    /\ CurrentStr(trace[i].fsBefore[Owner(trace[i].fsBefore, items[i].key)],
                  items[i].key) # items[i].old

\* C1: with force off, an edit whose key is found with a current
\* (stringified) value other than its `old` is not applied, a mismatch error
\* with the current and the expected value is recorded for it, and the
\* resource files are the same after the edit as before it.
C1_MismatchSkipsEdit ==
    \A i \in Edits :
        MismatchCase(i) =>
            LET ns == Owner(trace[i].fsBefore, items[i].key)
            IN  /\ trace[i].outcome = "mismatch"
                /\ trace[i].fsAfter = trace[i].fsBefore
                /\ OpsOf(i, "write", ns) = {}
                /\ \E j \in 1..Len(result.errors) :
                       result.errors[j] =
                           Err("mismatch", items[i].key, ns,
                               CurrentStr(trace[i].fsBefore[ns], items[i].key),
                               items[i].old, <<>>)
                /\ ~result.success

\* C1 witness: a call with force off has refused an edit for a mismatch,
\* after its first edit was applied.
C1_Witness ==
    /\ Returned
    /\ \E i \in Edits :
          /\ MismatchCase(i)
          /\ trace[i].outcome = "mismatch"
          /\ i > 1
          /\ trace[1].outcome = "applied"

\* C2: an edit that is applied while its key is in reviewed.json and in
\* old.json is applied to reviewed.json; it leaves old.json as it was and
\* makes no backup of it.
C2_PrimaryBeforeFallback ==
    \A i \in Edits :
        ( /\ HasKey(trace[i].fsBefore["reviewed"], items[i].key)
          /\ HasKey(trace[i].fsBefore["old"], items[i].key)
          /\ trace[i].outcome = "applied" ) =>
            /\ trace[i].ns = "reviewed"
            /\ trace[i].fsAfter["old"] = trace[i].fsBefore["old"]
            /\ CurrentStr(trace[i].fsAfter["reviewed"], items[i].key) = items[i].new
            /\ OpsOf(i, "write", "old") = {}
            /\ OpsOf(i, "backup", "old") = {}
            /\ OpsOf(i, "write", "reviewed") # {}
            /\ (Len(items) = 1 => fs["old"] = fs0["old"])

\* C2 witness: an edit was applied to a key that both files hold with
\* different values, the one of old.json being the edit's `old`.
C2_Witness ==
    /\ Returned
    /\ \E i \in Edits :
          /\ HasKey(trace[i].fsBefore["reviewed"], items[i].key)
          /\ HasKey(trace[i].fsBefore["old"], items[i].key)
          /\ CurrentStr(trace[i].fsBefore["old"], items[i].key) = items[i].old
          /\ CurrentStr(trace[i].fsBefore["reviewed"], items[i].key) # items[i].old
          /\ trace[i].outcome = "applied"

\* edit i has a key that old.json holds and reviewed.json does not, and its
\* `old` is the value old.json holds
FallbackCase(i) ==
    /\ Searches(i)
    /\ ~HasKey(trace[i].fsBefore["reviewed"], items[i].key)
    /\ HasKey(trace[i].fsBefore["old"], items[i].key)
    /\ CurrentStr(trace[i].fsBefore["old"], items[i].key) = items[i].old

\* C3: an edit whose key is in old.json only and whose `old` matches is
\* applied to old.json; reviewed.json is neither written nor backed up.
C3_FallbackLeavesPrimary ==
    \A i \in Edits :
        FallbackCase(i) =>
            /\ trace[i].outcome = "applied"
            /\ trace[i].ns = "old"
            /\ CurrentStr(trace[i].fsAfter["old"], items[i].key) = items[i].new
            /\ trace[i].fsAfter["reviewed"] = trace[i].fsBefore["reviewed"]
            /\ OpsOf(i, "write", "reviewed") = {}
            /\ OpsOf(i, "backup", "reviewed") = {}
            /\ BackupsOf(trace[i].bkAfter, "reviewed")
                   = BackupsOf(trace[i].bkBefore, "reviewed")

\* C3 witness: such an edit was applied with force off while reviewed.json
\* exists and is a JSON document.
C3_Witness ==
    /\ Returned
    /\ ~config.force
    /\ \E i \in Edits :
          /\ FallbackCase(i)
          /\ trace[i].fsBefore["reviewed"].st = "json"
          /\ trace[i].fsAfter["old"] # trace[i].fsBefore["old"]

\* edit i has a key that neither file holds
NotFoundCase(i) ==
    /\ Searches(i)
    /\ Owner(trace[i].fsBefore, items[i].key) = "none"

\* C4: for an edit whose key is in neither file the result holds an error
\* for that key that names both namespaces, success is false, and the edit
\* changes no resource file and makes no backup.
C4_NotFound ==
    \A i \in Edits :
        NotFoundCase(i) =>
            /\ \E j \in 1..Len(result.errors) :
                   result.errors[j] =
                       Err("notfound", items[i].key, "none", "", "",
                           <<"reviewed", "old">>)
            /\ ~result.success
            /\ trace[i].fsAfter = trace[i].fsBefore
            /\ trace[i].bkAfter = trace[i].bkBefore
            /\ \A ns \in Namespaces :
                   OpsOf(i, "write", ns) = {} /\ OpsOf(i, "backup", ns) = {}

\* C4 witness: a key was looked for in both files, which exist and are JSON
\* documents, and was in neither.
C4_Witness ==
    /\ Returned
    /\ \E i \in Edits :
          /\ NotFoundCase(i)
          /\ trace[i].outcome = "notfound"
          /\ \A ns \in Namespaces : trace[i].fsBefore[ns].st = "json"
          /\ \A ns \in Namespaces : OpsOf(i, "read", ns) # {}

\* C5 (as claimed): a call leaves at most one backup file per resource file.
C5_AtMostOneBackupPerFile ==
    pc # "idle" =>
        \A ns \in Namespaces : Cardinality(BackupsOf(backups, ns)) <= 1

\* the backups of the file of ns that edits which were applied have made
BackupsByApplied(ns) ==
    {j \in 1..Len(ops) :
        /\ ops[j].op = "backup"
        /\ ops[j].ns = ns
        /\ trace[ops[j].item].outcome = "applied"}

WritesTo(ns) == {j \in 1..Len(ops) : ops[j].op = "write" /\ ops[j].ns = ns}

\* C6: every write of a resource file comes after a backup of that file made
\* in the same call, and the edits that write one file make exactly one
\* backup of it between them, before the first of their writes.
C6_BackupBeforeFirstWrite ==
    Returned =>
        \A ns \in Namespaces :
            /\ \A j \in WritesTo(ns) :
                   \E k \in 1..(j - 1) : ops[k].op = "backup" /\ ops[k].ns = ns
            /\ WritesTo(ns) # {} =>
                   /\ Cardinality(BackupsByApplied(ns)) = 1
                   /\ \A k \in BackupsByApplied(ns) :
                          \A j \in WritesTo(ns) : k < j
                   /\ \E b \in BackupsOf(backups, ns) : b.content = fs0[ns]

\* C6 witness: two edits to different keys were applied to the same file.
C6_Witness ==
    /\ Returned
    /\ \E i1, i2 \in Edits :
          /\ i1 < i2
          /\ items[i1].key # items[i2].key
          /\ trace[i1].outcome = "applied"
          /\ trace[i2].outcome = "applied"
          /\ trace[i1].ns = trace[i2].ns

\* an edit of the payload lacks a non-empty key or a non-empty old
InvalidPayload ==
    /\ pc # "idle"
    /\ config.payload.kind # "none"
    /\ \E j \in 1..Len(items) : items[j].key = <<>> \/ items[j].old = ""

\* C10: when an edit of the batch lacks a non-empty key or a non-empty old,
\* the call throws a validation error and has read, backed up and written
\* no file.
C10_ValidationFailsFast ==
    InvalidPayload =>
        /\ pc = "threw"
        /\ result.thrown = "missing required field"
        /\ ops = <<>>
        /\ trace = <<>>
        /\ fs = fs0
        /\ backups = {}

\* C10 witness: the call threw on a payload whose first edit is complete and
\* would have been applied, and whose second edit has no key.
C10_Witness ==
    /\ InvalidPayload
    /\ pc = "threw"
    /\ Len(items) = 2
    /\ items[1].key # <<>> /\ items[1].old # "" /\ items[1].new # ""
    /\ Owner(fs0, items[1].key) # "none"
    /\ CurrentStr(fs0[Owner(fs0, items[1].key)], items[1].key) = items[1].old
    /\ items[2].key = <<>>

\* the edit `it` would be applied if it were the only edit of a call on the
\* files `files`: it has its three fields, a file holds its key, and the
\* value there is its `old` unless force is on
ValidAlone(it, files) ==
    /\ it.key # <<>> /\ it.old # "" /\ it.new # ""
    /\ Owner(files, it.key) # "none"
    /\ \/ config.force
       \/ CurrentStr(files[Owner(files, it.key)], it.key) = it.old

\* the second of three edits lacks a non-empty key or a non-empty old
SecondFailsValidation ==
    /\ pc # "idle"
    /\ Len(items) = 3
    /\ items[2].key = <<>> \/ items[2].old = ""

\* C11 (as claimed): in a call with three edits of which the second fails
\* validation, the first and the third, when valid on their own, are applied
\* and the result lists exactly one error.
C11_BatchIndependence ==
    ( /\ SecondFailsValidation
      /\ ValidAlone(items[1], fs0)
      /\ ValidAlone(items[3], fs0)
      /\ items[1].key # items[3].key ) =>
        /\ Returned
        /\ Len(trace) = 3
        /\ trace[1].outcome = "applied"
        /\ trace[3].outcome = "applied"
        /\ Len(result.errors) = 1

\* C11 (amended): when the second of three edits lacks key or old, the call
\* throws and applies no edit; when the second edit fails in its own
\* processing (no `new`, key not found, mismatch), the first and the third,
\* when valid on their own, are applied and the result lists one error.
C11_BatchOutcome ==
    /\ SecondFailsValidation =>
           /\ pc = "threw"
           /\ trace = <<>>
           /\ fs = fs0
           /\ result.errors = <<>>
    /\ (Returned /\ Len(items) = 3) =>
           /\ Len(trace) = 3
           /\ ( /\ trace[2].outcome # "applied"
                /\ ValidAlone(items[1], trace[1].fsBefore)
                /\ ValidAlone(items[3], trace[3].fsBefore) ) =>
                  /\ trace[1].outcome = "applied"
                  /\ trace[3].outcome = "applied"
                  /\ CurrentStr(trace[1].fsAfter[trace[1].ns], items[1].key)
                         = items[1].new
                  /\ CurrentStr(fs[trace[3].ns], items[3].key) = items[3].new
                  /\ Len(result.errors) = 1
                  /\ ~result.success

\* C11 witness: a call with force off has refused the second of three edits
\* for a mismatch and has applied the first and the third, to different keys.
C11_Witness ==
    /\ Returned
    /\ ~config.force
    /\ Len(items) = 3
    /\ trace[2].outcome = "mismatch"
    /\ trace[1].outcome = "applied"
    /\ trace[3].outcome = "applied"
    /\ items[1].key # items[3].key
    /\ Len(result.errors) = 1

\* the file system calls that edit i made
OpsBy(i) == {j \in 1..Len(ops) : ops[j].item = i}

\* C12: an edit without a `new` value changes no resource file, makes no
\* backup and makes no file system call at all, whatever its key, its `old`
\* and the force flag.
C12_SkipTouchesNothing ==
    \A i \in Edits :
        items[i].new = "" =>
            /\ trace[i].outcome = "skipped"
            /\ trace[i].fsAfter = trace[i].fsBefore
            /\ trace[i].bkAfter = trace[i].bkBefore
            /\ OpsBy(i) = {}
            /\ (\A k \in 1..Len(items) : items[k].new = "") =>
                   fs = fs0 /\ backups = {} /\ result.updatedFiles = <<>>

\* C12 witness: with force on, an edit without `new` was skipped whose key a
\* file holds with the edit's `old` as its value, after another edit of the
\* call was applied.
C12_Witness ==
    /\ Returned
    /\ config.force
    /\ \E i \in Edits :
          /\ items[i].new = ""
          /\ Owner(trace[i].fsBefore, items[i].key) # "none"
          /\ CurrentStr(trace[i].fsBefore[Owner(trace[i].fsBefore, items[i].key)],
                        items[i].key) = items[i].old
          /\ i > 1
          /\ trace[1].outcome = "applied"

\* C13 (as claimed): an edit without a `new` value is a skip and no error: a
\* call in which every other edit is applied returns success = true and an
\* empty errors list.
C13_SkipIsNoError ==
    ( /\ Returned
      /\ \E i \in Edits : items[i].new = ""
      /\ \A i \in Edits : items[i].new # "" => trace[i].outcome = "applied" ) =>
        /\ result.success
        /\ result.errors = <<>>

\* C14: the result of a call that returns has success = true exactly when
\* its errors list is empty, which is exactly when no edit of the batch has
\* ended otherwise than applied.
C14_SuccessIffNoErrors ==
    Returned =>
        /\ result.success <=> Len(result.errors) = 0
        /\ result.success <=> \A i \in Edits : trace[i].outcome = "applied"
        /\ Len(trace) = Len(items)

\* C14 witness: a call of two edits has applied both and reports success.
C14_Witness ==
    /\ Returned
    /\ Len(items) = 2
    /\ trace[1].outcome = "applied"
    /\ trace[2].outcome = "applied"
    /\ result.success

\* edit i failed: its key was in no file, its value check refused it, or its
\* update threw
Failed(i) == trace[i].outcome \in {"notfound", "mismatch", "error"}

\* the message for the failed edit i
MessageOf(i) ==
    IF trace[i].outcome = "notfound"
    THEN Err("notfound", items[i].key, "none", "", "", <<"reviewed", "old">>)
    ELSE IF trace[i].outcome = "mismatch"
    THEN Err("mismatch", items[i].key, trace[i].ns, trace[i].cur, items[i].old, <<>>)
    ELSE Err("update", items[i].key, trace[i].ns, "", "", <<>>)

\* the messages of the failed edits from edit i on, in the order of the edits
RECURSIVE MessagesFrom(_)
MessagesFrom(i) ==
    IF i > Len(trace) THEN <<>>
    ELSE IF Failed(i) THEN <<MessageOf(i)>> \o MessagesFrom(i + 1)
    ELSE MessagesFrom(i + 1)

\* C15 (as claimed): the errors of a call that returns are the messages of
\* its failed edits, one each, in the order of the edits; an edit that was
\* applied, and an edit that was skipped for want of a `new` value, has none.
C15_OneErrorPerFailedEdit ==
    Returned => result.errors = MessagesFrom(1)

\* the resource files that edits of the call were applied to
Written == {ns \in Namespaces : WritesTo(ns) # {}}

\* C16: the updatedFiles of a call that returns list the resource files the
\* call has written, each once, in the order of their first writes, and no
\* other file; a file the call has changed is among them.
C16_UpdatedFilesAreWritten ==
    Returned =>
        /\ {result.updatedFiles[j] : j \in 1..Len(result.updatedFiles)} = Written
        /\ Len(result.updatedFiles) = Cardinality(Written)
        /\ \A ns \in Namespaces : fs[ns] # fs0[ns] => ns \in Written
        /\ \A ns \in Written : \E i \in Edits :
               trace[i].outcome = "applied" /\ trace[i].ns = ns
        /\ \A j, k \in 1..Len(result.updatedFiles) :
               j < k =>
                   \E w \in WritesTo(result.updatedFiles[j]) :
                       \A v \in WritesTo(result.updatedFiles[k]) : w < v

\* C16 witness: a call has applied three edits, two of them to one file, and
\* lists reviewed.json and old.json.
C16_Witness ==
    /\ Returned
    /\ Len(result.updatedFiles) = 2
    /\ Written = {"reviewed", "old"}
    /\ \E ns \in Namespaces : Cardinality(WritesTo(ns)) = 2

\* C25: with force on, an edit with key, old and new whose key a file holds
\* is applied whether or not its `old` is the current value: the file that
\* held the key has `new` at the key after the edit, and the call records no
\* mismatch error.
C25_ForceOverwrites ==
    (Returned /\ config.force) =>
        /\ \A j \in 1..Len(result.errors) : result.errors[j].kind # "mismatch"
        /\ \A i \in Edits :
               ( /\ items[i].new # ""
                 /\ Owner(trace[i].fsBefore, items[i].key) # "none" ) =>
                   LET ns == Owner(trace[i].fsBefore, items[i].key)
                   IN  /\ trace[i].outcome = "applied"
                       /\ trace[i].ns = ns
                       /\ CurrentStr(trace[i].fsAfter[ns], items[i].key)
                              = items[i].new
                       /\ OpsOf(i, "write", ns) # {}
                       /\ (i = Len(trace) =>
                              CurrentStr(fs[ns], items[i].key) = items[i].new)

\* C25 witness: with force on, an edit was applied whose `old` was not the
\* value the file held, and the call reports success.
C25_Witness ==
    /\ Returned
    /\ config.force
    /\ result.success
    /\ \E i \in Edits :
          /\ trace[i].outcome = "applied"
          /\ trace[i].cur # items[i].old
          /\ trace[i].cur # items[i].new

\* the payload without the `ns` of its edits
WithoutHints(payload) ==
    [payload EXCEPT !.item = [@ EXCEPT !.ns = ""],
                    !.items = [i \in 1..Len(payload.items) |->
                                  [payload.items[i] EXCEPT !.ns = ""]]]

\* C26: what a call with edits that name a namespace has returned or thrown
\* and what it has left in the resource files and backups is what the call
\* gives, with the clock running the same, for the request that differs
\* from it in having no `ns` in its edits; so any two requests that differ
\* only in `ns` give the same.
C26_HintIgnored ==
    (pc # "idle" /\ \E i \in 1..Len(items) : items[i].ns # "") =>
        \E ticks \in [1..Len(items) -> 0..1] :
            \E r \in {updateI18n([force |-> config.force,
                                  payload |-> WithoutHints(config.payload)],
                                 fs0, {}, 0, ticks)} :
                /\ r.threw = result.thrown
                /\ r.threw = "" => result = resultOf(r.st)
                /\ r.st.fs = fs
                /\ r.st.backups = backups
                /\ r.st.clock = clock
                /\ r.st.ops = ops
                /\ r.st.trace = trace

\* C26 witness: a call has applied to reviewed.json an edit that names the
\* namespace old, whose file holds the key too, with the edit's `old`.
C26_Witness ==
    /\ Returned
    /\ \E i \in Edits :
          /\ items[i].ns = "old"
          /\ trace[i].outcome = "applied"
          /\ trace[i].ns = "reviewed"
          /\ HasKey(trace[i].fsBefore["old"], items[i].key)

\* what the processing of edit i comes to on the files as the edits before
\* it have left them, whatever those edits came to
OutcomeAlone(i) ==
    LET before == trace[i].fsBefore
        ns     == Owner(before, items[i].key)
    IN  IF ~Searches(i) THEN "skipped"
        ELSE IF ns = "none" THEN "notfound"
        ELSE IF ~config.force /\ CurrentStr(before[ns], items[i].key) # items[i].old
             THEN "mismatch"
        ELSE IF before[ns].ro THEN "error"
        ELSE "applied"

\* the errors of the result that are not notes of edits skipped for want of
\* a `new` value
FailureErrors ==
    {e \in 1..Len(result.errors) : result.errors[e].kind # "skipped"}

\* C32: in a call that returns, every edit is processed, each on the files
\* as the edit before it left them, and comes to what it would come to had
\* no edit before it failed; an edit that fails (key not found, mismatch,
\* write refused after the backup) leaves every file as it was, so what
\* earlier edits have written stays, and the result has one error for it.
C32_FailureIsPerEdit ==
    Returned =>
        /\ Len(trace) = Len(items)
        /\ \A i \in Edits :
              /\ trace[i].fsBefore = IF i = 1 THEN fs0 ELSE trace[i - 1].fsAfter
              /\ i = Len(trace) => fs = trace[i].fsAfter
              /\ trace[i].outcome = OutcomeAlone(i)
              /\ Failed(i) =>
                    /\ trace[i].fsAfter = trace[i].fsBefore
                    /\ ~result.success
                    /\ \E e \in FailureErrors : result.errors[e] = MessageOf(i)
        /\ Cardinality(FailureErrors) = Cardinality({i \in Edits : Failed(i)})

\* C32 witness: of three edits the first was applied, the second was found
\* in a file the process may not write and failed after its backup was
\* made, and the third was applied; the first edit's value is in the file.
C32_Witness ==
    /\ Returned
    /\ Len(trace) = 3
    /\ trace[1].outcome = "applied"
    /\ trace[2].outcome = "error"
    /\ trace[2].fsBefore[trace[2].ns].ro
    /\ trace[2].bkAfter # trace[2].bkBefore
    /\ trace[3].outcome = "applied"
    /\ CurrentStr(fs[trace[1].ns], items[1].key) = items[1].new
    /\ Len(result.errors) = 1

\* the key of edit i resolves, in every file that holds it, to an object
\* node, and some file holds it
ObjectNodeCase(i) ==
    /\ Searches(i)
    /\ \E ns \in Namespaces : HasKey(trace[i].fsBefore[ns], items[i].key)
    /\ \A ns \in Namespaces :
          HasKey(trace[i].fsBefore[ns], items[i].key) =>
              Resolve(trace[i].fsBefore[ns].doc, split(items[i].key), 1).node.t
                  = "obj"

\* C33: an edit whose key resolves to an object node and to no leaf fails
\* with an error, with force on or off, and leaves every file as it was.
C33_ObjectNodeNotFound ==
    \A i \in Edits :
        ObjectNodeCase(i) =>
            /\ Failed(i)
            /\ ~result.success
            /\ trace[i].fsAfter = trace[i].fsBefore

\* reviewed.json cannot be read: it is missing or holds no JSON
Unreadable(file) == file.st \in {"missing", "garbage"}

\* C34: when reviewed.json is missing or holds no JSON, a call with a
\* payload whose edits all have key and old returns with every edit
\* processed; an edit with a `new` value whose key old.json holds is taken
\* to old.json, and is applied there when force is on or its `old` is the
\* value, else refused as a mismatch there; reviewed.json stays as it was.
C34_UnreadablePrimarySkipped ==
    ( /\ pc # "idle"
      /\ Unreadable(fs0["reviewed"])
      /\ config.payload.kind # "none"
      /\ ~InvalidPayload ) =>
        /\ Returned
        /\ Len(trace) = Len(items)
        /\ fs["reviewed"] = fs0["reviewed"]
        /\ \A i \in Edits :
              (Searches(i) /\ HasKey(trace[i].fsBefore["old"], items[i].key)) =>
                  /\ trace[i].ns = "old"
                  /\ OpsOf(i, "exists", "old") # {}
                  /\ OpsOf(i, "read", "old") # {}
                  /\ IF config.force
                        \/ CurrentStr(trace[i].fsBefore["old"], items[i].key)
                               = items[i].old
                     THEN /\ trace[i].outcome = "applied"
                          /\ CurrentStr(trace[i].fsAfter["old"], items[i].key)
                                 = items[i].new
                          /\ OpsOf(i, "write", "old") # {}
                     ELSE trace[i].outcome = "mismatch"

\* C34 witness: reviewed.json holds no JSON, the first edit's key is in no
\* file, and the second edit was applied to old.json with force off.
C34_Witness ==
    /\ Returned
    /\ ~config.force
    /\ fs0["reviewed"].st = "garbage"
    /\ Len(trace) = 2
    /\ trace[1].outcome = "notfound"
    /\ trace[2].outcome = "applied"
    /\ trace[2].ns = "old"
    /\ fs["old"] # fs0["old"]

\* edits i and j, i before j, have the same key, i was applied, and no edit
\* between them was applied
AppliedThenSameKey(i, j) ==
    /\ i < j
    /\ items[i].key = items[j].key
    /\ trace[i].outcome = "applied"
    /\ Searches(j)
    /\ \A k \in Edits : (i < k /\ k < j) => trace[k].outcome # "applied"

\* C35: when an edit was applied and a later edit of the call has the same
\* key, the later edit finds the key in the same file with the value the
\* first has written; with force off it is applied when its `old` is the
\* first edit's `new`, and else refused with a mismatch error that names
\* that value as the current one.
C35_SecondEditSeesFirstWrite ==
    \A i, j \in Edits :
        AppliedThenSameKey(i, j) =>
            /\ trace[j].ns = trace[i].ns
            /\ trace[j].cur = items[i].new
            /\ ~config.force =>
                  IF items[j].old = items[i].new
                  THEN trace[j].outcome = "applied"
                  ELSE /\ trace[j].outcome = "mismatch"
                       /\ \E e \in 1..Len(result.errors) :
                             result.errors[e] =
                                 Err("mismatch", items[j].key, trace[j].ns,
                                     items[i].new, items[j].old, <<>>)
                       /\ trace[j].fsAfter = trace[j].fsBefore

\* C35 witness: with force off, two edits with the same key and the same
\* `old`, which differs from their `new`: the first was applied and the
\* second refused.
C35_Witness ==
    /\ Returned
    /\ ~config.force
    /\ Len(trace) = 2
    /\ items[1].key = items[2].key
    /\ items[1].old = items[2].old
    /\ items[1].old # items[1].new
    /\ trace[1].outcome = "applied"
    /\ trace[2].outcome = "mismatch"

\* C29: what a call whose payload is a single edit object has returned or
\* thrown, and what it has left in the resource files and backups, is what
\* the call gives, with the clock running the same, for the request whose
\* payload is the list of that one object.
C29_ObjectAsOneElementList ==
    (pc # "idle" /\ config.payload.kind = "object") =>
        \E ticks \in [1..1 -> 0..1] :
            \E r \in {updateI18n([force |-> config.force,
                                  payload |-> [kind |-> "array", item |-> NoItem,
                                               items |-> <<config.payload.item>>]],
                                 fs0, {}, 0, ticks)} :
                /\ r.threw = result.thrown
                /\ r.threw = "" => result = resultOf(r.st)
                /\ r.st.fs = fs
                /\ r.st.backups = backups
                /\ r.st.clock = clock
                /\ r.st.ops = ops
                /\ r.st.trace = trace

\* C29 witness: a call whose payload was a single edit object has applied
\* the edit and reports success with the file it has written.
C29_Witness ==
    /\ Returned
    /\ config.payload.kind = "object"
    /\ Len(trace) = 1
    /\ trace[1].outcome = "applied"
    /\ result.success
    /\ result.updatedFiles = <<trace[1].ns>>
    /\ fs # fs0

\* C30: an edit that the value check rejects (force off) leaves the set of
\* backup files as it was, and a file has a backup made in the call only
\* where the call has written that file.
C30_NoBackupWithoutMutation ==
    /\ \A i \in Edits :
          trace[i].outcome = "mismatch" => trace[i].bkAfter = trace[i].bkBefore
    /\ Returned =>
          \A ns \in Namespaces :
              BackupsOf(backups, ns) # {} =>
                  \E i \in Edits : OpsOf(i, "write", ns) # {}

\* the key paths of a node, each with `prefix` before it
RECURSIVE PathsFrom(_, _)
PathsFrom(node, prefix) ==
    IF node.t # "obj" THEN {}
    ELSE UNION {{Append(prefix, k)} \cup PathsFrom(node.m[k], Append(prefix, k)) :
                    k \in DOMAIN node.m}

\* the key paths of a resource file
KeyPaths(file) == IF file.st = "json" THEN PathsFrom(file.doc, <<>>) ELSE {}

\* the file holds no object for the key to be a member of: a segment before
\* the last is missing or is no object (or the file holds no document)
BrokenPath(file, key) ==
    LET segs == split(key)
    IN  file.st = "json" =>
            \E n \in 1..(Len(segs) - 1) :
                LET r == Resolve(file.doc, SubSeq(segs, 1, n), 1)
                IN  ~r.found \/ r.node.t # "obj"

\* edit i has a `new` value and a key that has a missing or non-object
\* segment before its last in every resource file
BrokenEdit(i) ==
    /\ Searches(i)
    /\ \A ns \in Namespaces : BrokenPath(trace[i].fsBefore[ns], items[i].key)

\* C27: after a call every key path of a resource file was a key path of
\* that file before the call, and so for every edit of the call; an edit
\* whose key has a missing or non-object segment before its last is reported
\* with an error under its key and leaves the key paths of every file as
\* they were.
C27_NoNewKeyPaths ==
    /\ pc # "idle" =>
           \A ns \in Namespaces :
               \/ fs[ns] = fs0[ns]
               \/ KeyPaths(fs[ns]) \subseteq KeyPaths(fs0[ns])
    /\ \A i \in Edits :
          /\ \A ns \in Namespaces :
                \/ trace[i].fsAfter[ns] = trace[i].fsBefore[ns]
                \/ KeyPaths(trace[i].fsAfter[ns])
                       \subseteq KeyPaths(trace[i].fsBefore[ns])
          /\ BrokenEdit(i) =>
                /\ trace[i].outcome \in {"notfound", "error"}
                /\ ~result.success
                /\ \E e \in 1..Len(result.errors) :
                      /\ result.errors[e].key = items[i].key
                      /\ result.errors[e].kind \in {"notfound", "update"}
                /\ \A ns \in Namespaces :
                      \/ trace[i].fsAfter[ns] = trace[i].fsBefore[ns]
                      \/ KeyPaths(trace[i].fsAfter[ns])
                             = KeyPaths(trace[i].fsBefore[ns])

\* C27 witness: a call had an edit whose key leads through a string leaf of
\* reviewed.json and through a segment that old.json has not, and another
\* edit of the call was applied.
C27_Witness ==
    /\ Returned
    /\ \E i, j \in Edits :
          /\ BrokenEdit(i)
          /\ items[i].key = KeyAA
          /\ HasKey(trace[i].fsBefore["reviewed"], KeyA)
          /\ trace[i].fsBefore["old"].st = "json"
          /\ trace[j].outcome = "applied"

\* path p leads to the node at path q or to a node above it
IsPrefix(p, q) == Len(p) <= Len(q) /\ SubSeq(q, 1, Len(p)) = p

\* C37: an applied edit leaves the other resource file as it was, and in the
\* file it is applied to it sets the value at its key to `new`, adds no key
\* path, and leaves every key path that does not lead to its key with the
\* value it had.
C37_OnlyOneValueChanges ==
    \A i \in Edits :
        trace[i].outcome = "applied" =>
            LET ns     == trace[i].ns
                segs   == split(items[i].key)
                before == trace[i].fsBefore[ns]
                after  == trace[i].fsAfter[ns]
            IN  /\ \A o \in Namespaces \ {ns} :
                      trace[i].fsAfter[o] = trace[i].fsBefore[o]
                /\ after.st = "json"
                /\ Resolve(after.doc, segs, 1)
                       = [found |-> TRUE, node |-> Str(items[i].new)]
                /\ KeyPaths(after) \subseteq KeyPaths(before)
                /\ \A p \in KeyPaths(before) :
                      ~IsPrefix(p, segs) =>
                          Resolve(after.doc, p, 1) = Resolve(before.doc, p, 1)

\* edit i, with force off, has a key that both files hold: reviewed.json
\* with a value other than the edit's `old`, old.json with that value
ShadowedMatch(i) ==
    /\ ~config.force
    /\ Searches(i)
    /\ HasKey(trace[i].fsBefore["reviewed"], items[i].key)
    /\ HasKey(trace[i].fsBefore["old"], items[i].key)
    /\ CurrentStr(trace[i].fsBefore["reviewed"], items[i].key) # items[i].old
    /\ CurrentStr(trace[i].fsBefore["old"], items[i].key) = items[i].old

\* C38: with force off, an edit whose key is in both files, with a value
\* other than its `old` in reviewed.json and with its `old` in old.json, is
\* refused with a mismatch error that names reviewed.json and its value
\* there; the edit makes no call on old.json, and old.json and its backups
\* are after the edit as they were before it.
C38_NoFallThroughOnMismatch ==
    \A i \in Edits :
        ShadowedMatch(i) =>
            /\ trace[i].outcome = "mismatch"
            /\ trace[i].ns = "reviewed"
            /\ \E e \in 1..Len(result.errors) :
                  result.errors[e] =
                      Err("mismatch", items[i].key, "reviewed",
                          CurrentStr(trace[i].fsBefore["reviewed"], items[i].key),
                          items[i].old, <<>>)
            /\ ~result.success
            /\ \A kind \in {"exists", "read", "backup", "write"} :
                  OpsOf(i, kind, "old") = {}
            /\ trace[i].fsAfter["old"] = trace[i].fsBefore["old"]
            /\ BackupsOf(trace[i].bkAfter, "old")
                   = BackupsOf(trace[i].bkBefore, "old")

\* C38 witness: a call with force off has refused, after an edit that was
\* applied, an edit on the key a with `old` "2", while reviewed.json held
\* "1" and old.json "2" for it.
C38_Witness ==
    /\ Returned
    /\ \E i \in Edits :
          /\ ShadowedMatch(i)
          /\ items[i].key = KeyA
          /\ items[i].old = "2"
          /\ trace[i].outcome = "mismatch"
          /\ trace[i].fsBefore["old"].doc.m[KeyA] = Str("2")
          /\ i > 1
          /\ trace[i - 1].outcome = "applied"

\* C39: every backup that a call has made, after any of its edits and at
\* its end, holds for its file the content the file had when the call began.
C39_BackupHoldsStartContent ==
    pc # "idle" =>
        /\ \A b \in backups : b.content = fs0[b.ns]
        /\ \A i \in 1..Len(trace) :
              \A b \in trace[i].bkAfter : b.content = fs0[b.ns]

\* C39 witness: a call has applied an edit to old.json, then was refused an
\* edit on reviewed.json, then has applied one to reviewed.json: it has made
\* a backup of reviewed.json at each of the two, after old.json was written.
C39_Witness ==
    /\ Returned
    /\ Len(trace) = 3
    /\ trace[1].outcome = "applied"
    /\ trace[1].ns = "old"
    /\ trace[2].outcome = "mismatch"
    /\ trace[2].ns = "reviewed"
    /\ trace[3].outcome = "applied"
    /\ trace[3].ns = "reviewed"
    /\ BackupsOf(trace[1].bkAfter, "reviewed") = {}
    /\ Cardinality(BackupsOf(backups, "reviewed")) = 2
    /\ fs["reviewed"] # fs0["reviewed"]
    /\ fs["old"] # fs0["old"]

\* C36: on every document and key path the two traversals agree: keyExists
\* has returned true exactly when traversePath has returned a cursor.
C36_TraversalsAgree ==
    probe.pc = "traversed" => (probe.exists <=> probe.cursor)

\* C36 witness: both traversals take the key a.b on a document in which a is
\* an object whose b is null.
C36_Witness ==
    /\ probe.pc = "traversed"
    /\ probe.key = <<"a", ".", "b">>
    /\ probe.exists
    /\ probe.cursor
    /\ probe.doc.m[KeyA].m[KeyB] = Null

(***************************************************************************)
(* Properties of the page of the editor.                                   *)
(***************************************************************************)
\* C40: the promise of every commit is resolved with the response to the
\* commit's own request or with the object of its own timeout.
C40_ResolvedByOwnResponse ==
    \A c \in Commits :
        page.commits[c].pc = "resolved" =>
            \/ page.commits[c].response = TimeoutResponse
            \/ /\ page.commits[c].response.kind = "response"
               /\ page.commits[c].response.for = c

(***************************************************************************)
(* Properties of the text of a resource file.                              *)
(***************************************************************************)
\* C28: when the file an edit was applied to is read again and the edit's
\* key resolved in it, the value is the edit's `new`, character for
\* character, for every non-empty string of the model's characters.
C28_RoundTrip ==
    roundTrip.pc = "read" =>
        /\ roundTrip.back.ok
        /\ roundTrip.back.value = roundTrip.new

\* C28 witness: a value with a quote, a space between two characters and a
\* character of two bytes has been written and read back.
C28_Witness ==
    /\ roundTrip.pc = "read"
    /\ roundTrip.new = <<"\"", " ", "ä">>
    /\ roundTrip.back.value = <<"\"", " ", "ä">>

(***************************************************************************)
(* Properties of two sessions on one directory.                            *)
(***************************************************************************)
\* session q has read the files after session p had finished, and p has
\* changed the value of q's key from what it was at first to another value
ChangedBefore(p, q) ==
    /\ p # q
    /\ Done(p)
    /\ p \in sessions[q].seen
    /\ sessions[p].outcome = "applied"
    /\ sessions[p].item.key = sessions[q].item.key
    /\ sessions[p].item.new
           # CurrentStr(fs0[Owner(fs0, sessions[p].item.key)], sessions[p].item.key)

\* C23: when a first session has changed the value of a key from V to
\* another value, a session that runs after it with old = V and force off
\* on the same key ends with a mismatch error that names the value written
\* and V, and the files stay as the first session left them.
C23_StaleEditRejected ==
    \A p, q \in Sessions :
        ( /\ ChangedBefore(p, q)
          /\ Done(q)
          /\ ~sessions[q].force
          /\ sessions[q].item.new # ""
          /\ sessions[q].item.old
                 = CurrentStr(fs0[Owner(fs0, sessions[p].item.key)],
                              sessions[p].item.key) ) =>
            /\ sessions[q].outcome = "mismatch"
            /\ ~sessions[q].result.success
            /\ sessions[q].result.errors =
                   <<Err("mismatch", sessions[q].item.key,
                         Owner(fs0, sessions[p].item.key),
                         sessions[p].item.new, sessions[q].item.old, <<>>)>>
            /\ sessions[q].fsAfter = sessions[p].fsAfter
            /\ fs = sessions[p].fsAfter
            /\ CurrentStr(fs[Owner(fs0, sessions[p].item.key)],
                          sessions[p].item.key) = sessions[p].item.new

\* C23 witness: session 1 has changed a value with force off, session 2
\* has then run with the old value as its `old`, and was refused.
C23_Witness ==
    /\ ChangedBefore(1, 2)
    /\ Done(2)
    /\ ~sessions[1].force
    /\ ~sessions[2].force
    /\ sessions[2].item.old = sessions[1].item.old
    /\ sessions[2].outcome = "mismatch"

\* the edit of session p is one that is applied to the files as they were
\* at first: its key is in the file of ns and the value check lets it pass
PassesAtFirst(p, ns) ==
    /\ sessions[p].item.new # ""
    /\ Owner(fs0, sessions[p].item.key) = ns
    /\ \/ sessions[p].force
       \/ sessions[p].item.old = CurrentStr(fs0[ns], sessions[p].item.key)

\* sessions p and q have edited different keys of the file of ns, both
\* have read the file before either has written, and p has written first
BothReadFirst(p, q, ns) ==
    /\ p # q
    /\ Done(p) /\ Done(q)
    /\ sessions[p].item.key # sessions[q].item.key
    /\ PassesAtFirst(p, ns) /\ PassesAtFirst(q, ns)
    /\ q \notin sessions[p].seen /\ p \notin sessions[q].seen
    /\ sessions[p].rank = 0 /\ sessions[q].rank = 1

\* C24: when two sessions edit different keys of one file and both read
\* the file before either writes, both are applied and report success, the
\* file is left as the second writer wrote it, and the key of the first
\* writer has in it the value it had before the two sessions.
C24_LostUpdate ==
    \A p, q \in Sessions : \A ns \in Namespaces :
        BothReadFirst(p, q, ns) =>
            /\ sessions[p].outcome = "applied"
            /\ sessions[q].outcome = "applied"
            /\ sessions[p].result.success /\ sessions[q].result.success
            /\ sessions[p].result.updatedFiles = <<ns>>
            /\ sessions[q].result.updatedFiles = <<ns>>
            /\ CurrentStr(sessions[p].fsAfter[ns], sessions[p].item.key)
                   = sessions[p].item.new
            /\ fs = sessions[q].fsAfter
            /\ CurrentStr(fs[ns], sessions[q].item.key) = sessions[q].item.new
            /\ CurrentStr(fs[ns], sessions[p].item.key)
                   = CurrentStr(fs0[ns], sessions[p].item.key)

\* C24 witness: both sessions have run with force off and report success,
\* and the value that session 1 has written first is no longer in the file.
C24_Witness ==
    /\ BothReadFirst(1, 2, "reviewed")
    /\ ~sessions[1].force /\ ~sessions[2].force
    /\ sessions[1].result.success /\ sessions[2].result.success
    /\ CurrentStr(fs["reviewed"], sessions[1].item.key) # sessions[1].item.new

(***************************************************************************)
(* Properties of the native messaging host.                                *)
(***************************************************************************)
\* the bytes given to the 'readable' handler so far hold a complete frame
FrameBuffered ==
    /\ Len(delivered) >= 4
    /\ Len(delivered) - 4 >= readUInt32LE(delivered)

\* a frame is well formed: its prefix is the number of bytes that follow
WellFormed(frame) ==
    /\ Len(frame) >= 4
    /\ readUInt32LE(frame) = Len(frame) - 4

\* stdout holds one complete, well-formed frame
ResponseOut ==
    /\ Len(stdout.frames) = 1
    /\ WellFormed(stdout.frames[1])
    /\ stdout.flushed = "all"

\* C7: at most one response frame is handed to stdout, whatever the order of
\* requests, parse errors, uncaught exceptions and unhandled rejections: a
\* frame has been handed over exactly when hasResponded is set.
C7_AtMostOneResponse ==
    /\ Len(stdout.frames) <= 1
    /\ hasResponded <=> Len(stdout.frames) = 1

\* C7 witness: the response on stdout is the one of the uncaughtException
\* handler, and a request was handled after it: its sendMessage was ignored.
C7_Witness ==
    /\ calls = 1
    /\ stdout.frames = <<outBuffer(errorResponse("U", <<>>))>>

\* C8: once a complete request frame has been given to the host, the host
\* has handed one well-formed response frame to stdout, and that frame gets
\* onto stdout in full unless a signal ends the process first.
C8_FrameLeadsToResponse ==
    /\ [](FrameBuffered =>
            Len(stdout.frames) = 1 /\ WellFormed(stdout.frames[1]))
    /\ FrameBuffered ~> (ResponseOut \/ exitBy = "signal")

\* C8 witness: the engine threw on the request, and the response to it is
\* on stdout in full when the process has exited.
C8_Witness ==
    /\ FrameBuffered
    /\ pc = "threw"
    /\ stdout.frames = <<outBuffer(errorResponse("E", <<>>))>>
    /\ ResponseOut
    /\ proc = "exited"

\* C9: the exit of the 'finish' handler is reached only with the response
\* frame handed to stdout and written in full, the write callback run and
\* the stream finished.
C9_ExitAfterFlush ==
    (proc = "exited" /\ exitBy = "finish") =>
        /\ Len(stdout.frames) = 1
        /\ stdout.flushed = "all"
        /\ stdout.callback
        /\ stdout.ended
        /\ stdout.finished

\* C9 witness: the host has applied a request and has exited from the
\* 'finish' handler.
C9_Witness ==
    /\ proc = "exited"
    /\ exitBy = "finish"
    /\ calls = 1
    /\ pc = "returned"
    /\ result.success

\* the characters that a reader of stdout decodes from UTF-8 bytes
RECURSIVE Decode(_)
Decode(bytes) ==
    IF bytes = <<>> THEN <<>>
    ELSE IF Len(bytes) >= 2 /\ bytes[1] = 195 /\ bytes[2] = 164
         THEN <<"ä">> \o Decode(SubSeq(bytes, 3, Len(bytes)))
         ELSE <<IF bytes[1] - 32 \in 1..Len(Ascii)
                THEN Ascii[bytes[1] - 32] ELSE "?">>
                  \o Decode(Tail(bytes))

\* the text of a frame: what follows its prefix
TextOf(frame) == Decode(SubSeq(frame, 5, Len(frame)))

\* the frame on stdout is the response to the one request the host has
\* handed to the engine, and the engine has returned
ForRequest ==
    /\ calls = 1
    /\ Returned
    /\ Len(stdout.frames) = 1
    /\ Len(TextOf(stdout.frames[1])) >= 3
    /\ TextOf(stdout.frames[1])[3] \notin {"U", "R"}

RECURSIVE Wide(_)
Wide(text) ==
    IF text = <<>> THEN 0
    ELSE (IF Head(text) = "ä" THEN 1 ELSE 0) + Wide(Tail(text))

\* the text a reader gets who reads the prefix and then as many bytes as the
\* prefix says
ReadBack(frame) ==
    Decode(SubSeq(frame, 5, 4 + readUInt32LE(frame)))

\* C18: the prefix of every frame handed to stdout is the number of bytes
\* of the JSON text in UTF-8, two for a two-byte character, and the bytes
\* that follow the prefix are that text and nothing more: the whole object,
\* from its opening to its closing brace.
C18_PrefixIsByteLength ==
    \A j \in 1..Len(stdout.frames) :
        LET frame == stdout.frames[j]
            text  == ReadBack(frame)
        IN  /\ Len(frame) >= 4
            /\ Len(frame) = 4 + readUInt32LE(frame)
            /\ readUInt32LE(frame) = Len(text) + Wide(text)
            /\ Len(text) >= 2
            /\ text[1] = "{"
            /\ text[Len(text)] = "}"
            /\ \A k \in 1..Len(text) : text[k] # "?"

\* C18 witness: the response on stdout has a two-byte character in its
\* text, and its prefix is one more than the number of its characters.
C18_Witness ==
    /\ Len(stdout.frames) = 1
    /\ stdout.flushed = "all"
    /\ \E k \in 1..Len(ReadBack(stdout.frames[1])) :
           ReadBack(stdout.frames[1])[k] = "ä"
    /\ readUInt32LE(stdout.frames[1]) = Len(ReadBack(stdout.frames[1])) + 1

\* all the bytes the caller has written to the host's stdin
Stream == delivered \o stdin

\* the caller has written one frame: a prefix and as many bytes as it says
OneFrame ==
    /\ Len(Stream) >= 4
    /\ readUInt32LE(Stream) = Len(Stream) - 4

\* the text of the response to the frame of Stream when it is handled at
\* once, the engine having come out as pc and result say
ExpectedText ==
    LET msg == jsonParse(SubSeq(Stream, 5, Len(Stream)))
    IN  IF ~msg.ok THEN <<"{", "f", "P", msg.at, "}">>
        ELSE IF msg.value.root = "" \/ msg.value.lang = ""
                    \/ msg.value.payload.kind = "none"
        THEN <<"{", "f", "M", "}">>
        ELSE IF pc = "threw" THEN <<"{", "f", "E", "}">>
        ELSE <<"{", IF result.success THEN "t" ELSE "f">>
                 \o ( IF Len(result.errors) > 0
                      THEN <<"C", NumStr(Len(result.errors))>>
                      ELSE <<"S", NumStr(Len(result.updatedFiles))>> )
                 \o <<"}">>

\* the frame is the response of the uncaughtException or of the
\* unhandledRejection handler
FromHandler(frame) == TextOf(frame)[3] \in {"U", "R"}

\* C19: however the bytes of one request frame are cut into chunks, the
\* host holds, after each chunk, the bytes it has been given with the length
\* of the prefix once that is complete, has called nothing before the last
\* byte, and with the last byte has decoded the message of the frame and
\* given the response that it gives to the frame in one chunk.
C19_ChunkingIndependent ==
    OneFrame =>
        LET msg == jsonParse(SubSeq(Stream, 5, Len(Stream)))
            requested == /\ msg.ok
                         /\ msg.value.root # "" /\ msg.value.lang # ""
                         /\ msg.value.payload.kind # "none"
        IN  /\ stdin # <<>> =>
                  /\ calls = 0
                  /\ pc = "idle"
                  /\ \A j \in 1..Len(stdout.frames) : FromHandler(stdout.frames[j])
                  /\ IF Len(delivered) < 4
                     THEN buffer = delivered /\ expectedLen = 0
                     ELSE /\ buffer = SubSeq(delivered, 5, Len(delivered))
                          /\ expectedLen = readUInt32LE(Stream)
            /\ stdin = <<>> =>
                  /\ buffer = <<>>
                  /\ expectedLen = 0
                  /\ calls = (IF requested THEN 1 ELSE 0)
                  /\ requested =>
                         config = [force |-> msg.value.force,
                                   payload |-> msg.value.payload]
                  /\ ~requested => pc = "idle"
                  /\ Len(stdout.frames) = 1
                  /\ \/ FromHandler(stdout.frames[1])
                     \/ TextOf(stdout.frames[1]) = ExpectedText

\* C19 witness: of a frame whose text is one two-byte character the host
\* has been given the prefix and the first byte of the character; it holds
\* that byte and the length, and has not responded.
C19_Witness ==
    /\ OneFrame
    /\ Len(delivered) = 5
    /\ stdin = <<164>>
    /\ buffer = <<195>>
    /\ expectedLen = 2
    /\ stdout.frames = <<>>

\* all the bytes the host has handed to stdout, in order
RECURSIVE Concat(_)
Concat(writes) ==
    IF writes = <<>> THEN <<>> ELSE Head(writes) \o Concat(Tail(writes))

Handed == Concat(stdout.frames)

\* the bytes are one response frame: a prefix, and after it as many bytes as
\* it says, which are the text of one JSON object with its success
IsResponseFrame(bytes) ==
    /\ Len(bytes) >= 8
    /\ readUInt32LE(bytes) = Len(bytes) - 4
    /\ TextOf(bytes)[1] = "{"
    /\ TextOf(bytes)[2] \in {"t", "f"}
    /\ TextOf(bytes)[Len(TextOf(bytes))] = "}"
    /\ \A k \in 2..Len(TextOf(bytes)) : TextOf(bytes)[k] \notin {"{", "?"}

\* C20: at every point the bytes handed to stdout, of which the bytes
\* written so far are a prefix, are none or one single response frame, and
\* they stay the frame they are; every method of console writes to stderr.
C20_StdoutIsOneFrame ==
    /\ [](/\ Handed = <<>> \/ IsResponseFrame(Handed)
          /\ stdout.flushed # "none" => Handed # <<>>
          /\ \A method \in {"log", "info", "debug", "warn", "error"} :
                 console(method) = "stderr")
    /\ [][Handed # <<>> => Handed' = Handed]_vars

\* C20 witness: the host has logged at its start, in the 'readable' handler,
\* in the engine and in sendMessage, and a part of the response to the
\* request is written to stdout.
C20_Witness ==
    /\ calls = 1
    /\ Returned
    /\ hasResponded
    /\ stdout.flushed = "part"
    /\ TextOf(Handed)[3] \in {"S", "C"}

\* the bytes are the text of a JSON value
IsJsonText(bytes) == \E t \in RequestTexts : t.bytes = bytes

\* the caller has written one frame whose text is not JSON
BadJsonFrame == OneFrame /\ ~IsJsonText(SubSeq(Stream, 5, Len(Stream)))

\* C21: when the text of the request frame is not JSON, the engine is never
\* called and no resource file is read, backed up or written; once the
\* frame is complete the host has handed one response to stdout, a failure,
\* which is the parse error unless an exception handler has answered first.
C21_ParseErrorNoEngine ==
    BadJsonFrame =>
        /\ calls = 0
        /\ pc = "idle"
        /\ ops = <<>>
        /\ fs = fs0
        /\ backups = {}
        /\ stdin = <<>> =>
               /\ Len(stdout.frames) = 1
               /\ TextOf(stdout.frames[1])[2] = "f"
               /\ \/ FromHandler(stdout.frames[1])
                  \/ TextOf(stdout.frames[1])[3] = "P"

\* C21 witness: the host was given a frame with no text at all, and its
\* parse error response is on stdout in full.
C21_Witness ==
    /\ BadJsonFrame
    /\ Stream = <<0, 0, 0, 0>>
    /\ stdin = <<>>
    /\ TextOf(stdout.frames[1]) = <<"{", "f", "P", "x", "}">>
    /\ stdout.flushed = "all"
    /\ calls = 0

\* C22 (as claimed): when a signal has ended the process, stdout holds no
\* bytes or one complete response frame, never a part of a frame.
C22_SignalLeavesNoPartialFrame ==
    (proc = "exited" /\ exitBy = "signal") =>
        \/ stdout.flushed = "none"
        \/ stdout.flushed = "all" /\ IsResponseFrame(Handed)


\* C31: a host process hands at most one request to updateI18n, whatever
\* arrives on stdin and however it is split into chunks.
C31_AtMostOneCall == calls <= 1

=============================================================================
